---- MODULE Spec2Model ----
(***************************************************************************)
(* Box storage inventory: the SQLite store (boxes, items, audit_logs), the *)
(* Boxes and Items tabs that mutate it, the audit logger and the CSV       *)
(* import of src/modules.                                                  *)
(*                                                                         *)
(* Text is a sequence of one-character strings, so that strip(), lower(),  *)
(* len() and int() are computed character by character.  A literal part of *)
(* an f-string is one element of the sequence it is formatted into.        *)
(***************************************************************************)
EXTENDS Integers, Sequences, FiniteSets, TLC

\* ------------------------------------------------------------------ bounds
MaxBoxes == 2
MaxItems == 2
MaxOps == 2
MaxQty == 2
MaxRows == 2
MaxLimit == 2
TicksPerDay == 2
MaxTicks == 2

\* ------------------------------------------------------- program constants
MaxNameLen == 255
FirstDataRow == 2
LogLimit == 1000
StaleDays == 7

\* the LIMIT of the query export_import_template takes its example boxes from
TemplateLimit == 3

\* --------------------------------------------------------------- text
\* Python None for a text column / argument.
NoneText == <<"None">>

\* Python None (and the falsy 0) for an id; AUTOINCREMENT ids start at 1.
NoneId == 0

Last(s) == s[Len(s)]

Front(s) == SubSeq(s, 1, Len(s) - 1)

RECURSIVE LStrip(_)
LStrip(s) == IF s # <<>> /\ Head(s) = " " THEN LStrip(Tail(s)) ELSE s

RECURSIVE RStrip(_)
RStrip(s) == IF s # <<>> /\ Last(s) = " " THEN RStrip(Front(s)) ELSE s

\* str.strip()
Strip(s) == RStrip(LStrip(s))

LowerChar(c) ==
    CASE c = "A" -> "a"
      [] c = "B" -> "b"
      [] c = "X" -> "x"
      [] c = "Y" -> "y"
      [] OTHER -> c

\* str.lower()
Lower(s) == [i \in 1..Len(s) |-> LowerChar(s[i])]

Digits == <<"0", "1", "2", "3", "4", "5", "6", "7", "8", "9">>

IsDigit(c) == \E i \in 1..10 : Digits[i] = c

DigitVal(c) == (CHOOSE i \in 1..10 : Digits[i] = c) - 1

RECURSIVE DigitsVal(_)
DigitsVal(s) == IF s = <<>> THEN 0 ELSE 10 * DigitsVal(Front(s)) + DigitVal(Last(s))

AllDigits(s) == s # <<>> /\ \A i \in 1..Len(s) : IsDigit(s[i])

\* int(s): [ok |-> TRUE, val |-> n], or [ok |-> FALSE] for ValueError.
ToInt(s) ==
    LET t == Strip(s) IN
    IF AllDigits(t) THEN [ok |-> TRUE, val |-> DigitsVal(t)]
    ELSE IF t # <<>> /\ Head(t) = "-" /\ AllDigits(Tail(t))
         THEN [ok |-> TRUE, val |-> 0 - DigitsVal(Tail(t))]
    ELSE IF t # <<>> /\ Head(t) = "+" /\ AllDigits(Tail(t))
         THEN [ok |-> TRUE, val |-> DigitsVal(Tail(t))]
    ELSE [ok |-> FALSE, val |-> 0]

RECURSIVE NatToText(_)
NatToText(n) == IF n < 10 THEN <<Digits[n + 1]>>
                ELSE NatToText(n \div 10) \o <<Digits[(n % 10) + 1]>>

\* str(n) / {n} in an f-string
IntToText(n) == IF n < 0 THEN <<"-">> \o NatToText(0 - n) ELSE NatToText(n)

\* ", ".join(parts)
RECURSIVE JoinComma(_)
JoinComma(parts) ==
    IF parts = <<>> THEN <<>>
    ELSE IF Len(parts) = 1 THEN parts[1]
    ELSE parts[1] \o <<", ">> \o JoinComma(Tail(parts))

\* haystack LIKE '%needle%' (SQLite LIKE ignores ASCII case)
Like(hay, needle) ==
    LET h == Lower(hay)
        n == Lower(needle)
    IN \E i \in 0..(Len(h) - Len(n)) : SubSeq(h, i + 1, i + Len(n)) = n

\* ------------------------------------------------------------------ state
VARIABLES
    boxes,            \* table boxes: set of [id, name, location]
    items,            \* table items: set of [id, name, box_id, quantity]
    audit_logs,       \* table audit_logs in id order
    box_seq,          \* sqlite_sequence of boxes (last AUTOINCREMENT id)
    item_seq,         \* sqlite_sequence of items
    boxes_table,      \* BoxesTab.table: rows (box_id, name, location)
    items_table,      \* ItemsTab.table: rows (item_id, name, quantity, box_id)
    items_search,     \* ItemsTab.search_input text
    box_filter_count, \* ItemsTab.box_filter.count()
    running,          \* FALSE once an unhandled exception ended the process
    log_base,         \* rows audit_logs held in the initial state
    schema,           \* inventory.db: its tables, the columns of boxes, the CHECK of items
    settings,         \* table settings: set of [key, value], key unique
    backup_folder,    \* directory "backup": whether it exists and its file names
    now,              \* the wall clock, in ticks (TicksPerDay of them in a day)
    fault_count,      \* sqlite3.Error exceptions the store has raised this session
    last              \* the handler that ran last and what it reported

vars == <<boxes, items, audit_logs, box_seq, item_seq, boxes_table, items_table,
          items_search, box_filter_count, running, log_base, schema, settings, backup_folder, now,
          fault_count, last>>

\* what no box, item or import handler touches
others == <<log_base, schema, settings, backup_folder, now>>

store == <<boxes, items, audit_logs, box_seq, item_seq, others>>

\* handlers of this session that reached the store: those that wrote an audit
\* row and those the store answered with an exception
OpsDone == (Len(audit_logs) - log_base) + fault_count

\* the session may still start a handler (the model's cap on its length)
OpsRoom == OpsDone < MaxOps

views == <<boxes_table, items_table, items_search, box_filter_count>>

\* ------------------------------------------------------------------ store
BoxIds == {b.id : b \in boxes}

BoxById(id) == CHOOSE b \in boxes : b.id = id

ItemIds == {i.id : i \in items}

ItemById(id) == CHOOSE i \in items : i.id = id

\* the same count without its WHERE clause
ItemCountAll(box_id) == Cardinality(items)

\* SELECT COUNT(*) FROM items WHERE box_id = ?
ItemCount(box_id) == Cardinality({i \in items : i.box_id = box_id})

\* CHECK(quantity > 0) and FOREIGN KEY (box_id) REFERENCES boxes(id) with
\* PRAGMA foreign_keys = ON; a NULL box_id passes the foreign key.
ItemConstraintsOk(box_id, quantity, bs) ==
    /\ schema.items_check => quantity > 0
    /\ box_id = NoneId \/ box_id \in {b.id : b \in bs}

\* DELETE FROM boxes WHERE id = ?  with ON DELETE CASCADE on items.box_id
BoxesAfterDelete(box_id) == {b \in boxes : b.id # box_id}

\* the same DELETE with foreign keys off: the items of the box stay
ItemsAfterBoxDeleteNoCascade(box_id) == items

ItemsAfterBoxDelete(box_id) == {i \in items : i.box_id # box_id}

\* the row log_action inserts
AuditRow(action, entity_type, entity_id, entity_name, details, old_value, new_value) ==
    [action |-> action, entity_type |-> entity_type, entity_id |-> entity_id,
     entity_name |-> entity_name, details |-> details,
     old_value |-> old_value, new_value |-> new_value]

\* log_action writing over the table instead of adding to it
LogActionReplace(row) == <<row>>

\* log_action running its INSERT twice
LogActionTwice(row) == Append(Append(audit_logs, row), row)

\* log_action: INSERT INTO audit_logs ...; commit
LogAction(row) == Append(audit_logs, row)

\* a handler whose log_action ran ahead of the mutating statement: the row it
\* wrote stays when the statement raises
AuditBeforeCommit(action, entity_type, entity_id) ==
    Append(audit_logs, AuditRow(action, entity_type, entity_id, NoneText, <<>>,
                                NoneText, NoneText))

\* the audit table after "except sqlite3.Error: conn.rollback()": the mutating
\* statement or its commit raised before log_action was reached, no row is added
AuditAfterRollback(action, entity_type, entity_id) == audit_logs

\* outcomes of the store for one handler: every statement succeeds, the
\* mutating statement (or its commit) raises sqlite3.Error, or the INSERT
\* INTO audit_logs of log_action raises sqlite3.Error
Faults == {"none", "mutation", "audit"}

Raised(fault) == IF fault = "none" THEN fault_count ELSE fault_count + 1

\* ------------------------------------------------------------------ views
\* BoxesTab.load_boxes with an empty search box
LoadBoxes(bs) == {[box_id |-> b.id, name |-> b.name, location |-> b.location] : b \in bs}

\* ItemsTab.load_items: box filter on "All Boxes", search text as given
LoadItems(its, search) ==
    {[item_id |-> i.id, name |-> i.name, quantity |-> i.quantity, box_id |-> i.box_id] :
        i \in {j \in its : Strip(search) = <<>> \/ Like(j.name, Strip(search))}}

\* ItemsTab.load_box_filter appends one entry per box (it never clears)
LoadBoxFilter(count, bs) == count + Cardinality(bs)

\* what a handler reported: its outcome, the row it worked on and, for a
\* dialog that refused its input, the text of the warning box
Report(op, result, id) == [op |-> op, result |-> result, id |-> id, message |-> ""]

Rejected(op, id, message) == [op |-> op, result |-> "rejected", id |-> id, message |-> message]

\* no handler is running and no dialog or message box is open: the event
\* loop can start a handler
NoReport == Report("none", "none", NoneId)

Idle == running /\ last = NoReport

\* ------------------------------------------------------------------ dialogs
\* a confirmation whose answer is not looked at
ReplyIgnored(reply_yes) == TRUE

\* reply == QMessageBox.StandardButton.Yes, of the question a delete asks
ReplyIsYes(reply_yes) == reply_yes

\* EditBoxDialog.save: the (name, location) it accepts, or rejection
BoxDialogSave(name_text, location_text) ==
    LET name == Strip(name_text)
        location == Strip(location_text)
    IN IF name = <<>> THEN [ok |-> FALSE, message |-> "Box name cannot be empty"]
       ELSE IF Len(name) > MaxNameLen
            THEN [ok |-> FALSE, message |-> "Box name is too long (max 255 characters)"]
       ELSE IF location # <<>> /\ Len(location) > MaxNameLen
            THEN [ok |-> FALSE, message |-> "Location is too long (max 255 characters)"]
       ELSE [ok |-> TRUE, name |-> name, location |-> location]

\* EditItemDialog.save without its test of the name
ItemDialogSaveNoNameCheck(name_text, box_id, quantity) ==
    IF box_id = NoneId THEN [ok |-> FALSE, message |-> "Please select a box"]
    ELSE IF quantity < 1 THEN [ok |-> FALSE, message |-> "Quantity must be at least 1"]
    ELSE [ok |-> TRUE, name |-> Strip(name_text), box_id |-> box_id, quantity |-> quantity]

\* EditItemDialog.save: the (name, box_id, quantity) it accepts, or rejection.
\* box_id is box_combo.currentData(): None when the combo box is empty.
ItemDialogSave(name_text, box_id, quantity) ==
    LET name == Strip(name_text)
    IN IF name = <<>> THEN [ok |-> FALSE, message |-> "Item name cannot be empty"]
       ELSE IF box_id = NoneId THEN [ok |-> FALSE, message |-> "Please select a box"]
       ELSE IF quantity < 1 THEN [ok |-> FALSE, message |-> "Quantity must be at least 1"]
       ELSE IF Len(name) > MaxNameLen
            THEN [ok |-> FALSE, message |-> "Item name is too long (max 255 characters)"]
       ELSE [ok |-> TRUE, name |-> name, box_id |-> box_id, quantity |-> quantity]

\* EditItemDialog.load_boxes: the entries the user can pick in box_combo
BoxComboChoices == IF boxes = {} THEN {NoneId} ELSE BoxIds

\* ------------------------------------------------------------------ inputs
TxtA == <<"a">>
TxtB == <<"B">>
TxtX == <<"x">>
TxtY == <<"y">>
TxtShelf == <<"s">>
TxtLong == [i \in 1..(MaxNameLen + 1) |-> "a"]

BoxNameInputs == {<<" ">>, TxtA, <<" ", "B">>, TxtLong}
LocationInputs == {<<>>, TxtShelf}
ItemNameInputs == {<<>>, TxtX, <<"y", " ">>, TxtLong}
QtyInputs == 0..MaxQty
SearchInputs == {<<>>, <<"X">>}

\* required_headers of import_from_csv
RequiredHeaders == {"Item Name", "Box", "Quantity"}

CsvRow(name, box, quantity) == [name |-> name, box |-> box, quantity |-> quantity]

RowUpper == CsvRow(TxtX, <<"A">>, <<"2">>)         \* valid: box 'a' named in upper case
RowPadded == CsvRow(<<" ", "y">>, TxtA, <<"1">>)   \* valid after strip()
RowZero == CsvRow(TxtX, TxtA, <<"0">>)             \* quantity below 1
RowBad == CsvRow(<<>>, <<"z">>, <<"q">>)           \* no name, no such box, no number
RowShort == CsvRow(TxtX, TxtA, NoneText)           \* a line of two fields: Quantity is None

CsvFiles ==
    { [chosen |-> FALSE, empty |-> FALSE, headers |-> {}, rows |-> <<>>],
      [chosen |-> TRUE, empty |-> FALSE, headers |-> {"Item Name", "Box"}, rows |-> <<RowUpper>>],
      [chosen |-> TRUE, empty |-> FALSE, headers |-> RequiredHeaders, rows |-> <<>>],
      [chosen |-> TRUE, empty |-> FALSE, headers |-> RequiredHeaders, rows |-> <<RowPadded>>],
      [chosen |-> TRUE, empty |-> FALSE, headers |-> RequiredHeaders, rows |-> <<RowZero>>],
      [chosen |-> TRUE, empty |-> FALSE, headers |-> RequiredHeaders \cup {"Notes"}, rows |-> <<RowUpper, RowPadded>>],
      [chosen |-> TRUE, empty |-> FALSE, headers |-> RequiredHeaders, rows |-> <<RowUpper, RowBad>>],
      [chosen |-> TRUE, empty |-> FALSE, headers |-> RequiredHeaders, rows |-> <<RowBad, RowShort>>],
      [chosen |-> TRUE, empty |-> TRUE, headers |-> {}, rows |-> <<>>],
      [chosen |-> TRUE, empty |-> FALSE, headers |-> RequiredHeaders, rows |-> <<RowPadded, RowUpper, RowPadded>>],
      [chosen |-> TRUE, empty |-> FALSE, headers |-> RequiredHeaders, rows |-> <<RowUpper, RowPadded, RowZero>>] }

CsvInputs == {csv \in CsvFiles : Len(csv.rows) <= MaxRows}

\* ------------------------------------------------------------------ Init
\* inventory.db as an earlier session can have left it: new, written by the
\* legacy GUI, with one box, or with one box holding one item; each with the
\* audit rows those operations wrote.
StoredBoxes == {[id |-> 1, name |-> TxtA, location |-> <<>>]}

StoredItems == {[id |-> 1, name |-> TxtX, box_id |-> 1, quantity |-> 1]}

StoredBoxLog ==
    <<AuditRow("CREATE", "BOX", 1, TxtA, <<"Created new box">>, NoneText, NoneText)>>

StoredItemLog ==
    <<AuditRow("CREATE", "ITEM", 1, TxtX,
               <<"Added ">> \o IntToText(1) \o <<" units to box '">> \o TxtA \o <<"'">>,
               NoneText, NoneText)>>

\* the tables setup_database creates and the columns it gives boxes
SchemaTables == {"boxes", "items", "audit_logs"}

BoxColumns == {"id", "name", "location"}

\* no inventory.db yet: sqlite3.connect creates an empty file
NewFile ==
    [tables |-> {}, boxes_columns |-> {}, items_check |-> FALSE,
     boxes |-> {}, items |-> {}, audit_logs |-> <<>>]

\* a file the single-file GUI src/inv_pyqt.py wrote: boxes has no location
\* column; one box and the audit row of its creation
LegacyFile ==
    [tables |-> SchemaTables, boxes_columns |-> {"id", "name"}, items_check |-> FALSE,
     boxes |-> {[id |-> 1, name |-> TxtA]}, items |-> {}, audit_logs |-> StoredBoxLog]

BoxFile ==
    [tables |-> SchemaTables, boxes_columns |-> BoxColumns, items_check |-> TRUE,
     boxes |-> StoredBoxes, items |-> {}, audit_logs |-> StoredBoxLog]

ItemFile ==
    [tables |-> SchemaTables, boxes_columns |-> BoxColumns, items_check |-> TRUE,
     boxes |-> StoredBoxes, items |-> StoredItems,
     audit_logs |-> StoredBoxLog \o StoredItemLog]

StoredFiles == {NewFile, LegacyFile, BoxFile, ItemFile}

\* the same setup with the ALTER TABLE applied to a table that has the column
SetupDatabaseAlterAgain(file) ==
    LET columns == IF "boxes" \in file.tables THEN file.boxes_columns ELSE BoxColumns
        altered == TRUE
    IN [tables |-> file.tables \cup SchemaTables,
        boxes_columns |-> columns \cup {"location"},
        items_check |-> IF "items" \in file.tables THEN file.items_check ELSE TRUE,
        boxes |-> {IF altered THEN [id |-> b.id, name |-> b.name, location |-> NoneText]
                   ELSE b : b \in file.boxes},
        items |-> file.items,
        audit_logs |-> file.audit_logs]

\* InventoryApp.setup_database on a file: CREATE TABLE IF NOT EXISTS for the
\* three tables, and ALTER TABLE boxes ADD COLUMN location, which gives the
\* rows boxes holds a NULL location and raises OperationalError (caught) when
\* the column is there.
SetupDatabase(file) ==
    LET columns == IF "boxes" \in file.tables THEN file.boxes_columns ELSE BoxColumns
        altered == "location" \notin columns
    IN [tables |-> file.tables \cup SchemaTables,
        boxes_columns |-> columns \cup {"location"},
        items_check |-> IF "items" \in file.tables THEN file.items_check ELSE TRUE,
        boxes |-> {IF altered THEN [id |-> b.id, name |-> b.name, location |-> NoneText]
                   ELSE b : b \in file.boxes},
        items |-> file.items,
        audit_logs |-> file.audit_logs]

\* the directory "backup" and the names of its files
\* no directory "backup" beside inventory.db
NoFolder == [exists |-> FALSE, files |-> {}]

\* datetime.strftime("%Y-%m-%d_%H-%M-%S"): the date, "_", the time of day
StampText(t) == NatToText(t \div TicksPerDay) \o <<"_">> \o NatToText(t % TicksPerDay)

\* f"inventory_backup_{timestamp}.db"
BackupFilename(t) == <<"inventory_backup_">> \o StampText(t) \o <<".db">>

\* f.startswith("inventory_backup_") and f.endswith(".db")
IsBackupName(f) == Len(f) >= 1 /\ f[1] = "inventory_backup_" /\ Last(f) = ".db"

\* datetime.strptime(filename.replace("inventory_backup_", "").replace(".db", ""),
\* "%Y-%m-%d_%H-%M-%S"); ok is FALSE where it raises ValueError
ParseStamp(f) ==
    LET timestamp_str == SelectSeq(f, LAMBDA c : c \notin {"inventory_backup_", ".db"})
        cuts == {k \in 1..Len(timestamp_str) : timestamp_str[k] = "_"}
        cut == CHOOSE k \in cuts : TRUE
        date == SubSeq(timestamp_str, 1, cut - 1)
        time == SubSeq(timestamp_str, cut + 1, Len(timestamp_str))
    IN IF /\ Cardinality(cuts) = 1
          /\ date # <<>> /\ AllDigits(date)
          /\ time # <<>> /\ AllDigits(time)
          /\ DigitsVal(time) < TicksPerDay
       THEN [ok |-> TRUE, value |-> DigitsVal(date) * TicksPerDay + DigitsVal(time)]
       ELSE [ok |-> FALSE, value |-> 0]

\* the same scan keeping the earliest date
GetOldestBackupDate(folder) ==
    LET backup_files == {f \in folder.files : IsBackupName(f)}
        dates == {ParseStamp(f).value : f \in {g \in backup_files : ParseStamp(g).ok}}
    IN IF ~folder.exists \/ dates = {}
       THEN [ok |-> FALSE, value |-> 0]
       ELSE [ok |-> TRUE, value |-> CHOOSE d \in dates : \A e \in dates : d <= e]

\* InventoryApp.get_latest_backup_date; ok is FALSE where it returns None
GetLatestBackupDate(folder) ==
    LET backup_files == {f \in folder.files : IsBackupName(f)}
        dates == {ParseStamp(f).value : f \in {g \in backup_files : ParseStamp(g).ok}}
    IN IF ~folder.exists \/ dates = {}
       THEN [ok |-> FALSE, value |-> 0]
       ELSE [ok |-> TRUE, value |-> CHOOSE d \in dates : \A e \in dates : e <= d]

\* (datetime.now() - latest_backup).days
DaysSince(latest_backup, t) == (t - latest_backup) \div TicksPerDay

\* the warning check_backup_status shows, "" when it shows none
BackupPrompt(folder, t) ==
    LET latest_backup == GetLatestBackupDate(folder) IN
    IF ~latest_backup.ok THEN "No Backup Found"
    ELSE IF DaysSince(latest_backup.value, t) >= StaleDays THEN "Backup Outdated"
    ELSE ""

\* the folders a session can find: none, an empty one, one with files that are
\* no backups, and folders with backups of day 0 and of day 1
StoredFolders ==
    {NoFolder,
     [exists |-> TRUE, files |-> {}],
     [exists |-> TRUE, files |-> {<<"n", "o", "t", "e", "s">>,
                                  <<"inventory_backup_", "o", "l", "d", ".db">>}],
     [exists |-> TRUE, files |-> {BackupFilename(0)}],
     [exists |-> TRUE, files |-> {BackupFilename(1), <<"inventory_backup_", "o", "l", "d", ".db">>}],
     [exists |-> TRUE, files |-> {BackupFilename(0), BackupFilename(TicksPerDay)}]}

\* the first tick of day StaleDays: backups of day 0 are StaleDays old
StartTime == StaleDays * TicksPerDay + 1

\* the state after InventoryApp.__init__ on one of the files, with one of the
\* backup folders beside it and the clock at one of the times; a prompt of
\* check_backup_status was answered No
InitWith(files, folders, times) ==
    /\ backup_folder \in folders
    /\ now \in times
    /\ \E file \in files :
        LET db == SetupDatabase(file) IN
        /\ boxes = db.boxes
        /\ items = db.items
        /\ audit_logs = db.audit_logs
        /\ schema = [tables |-> db.tables, boxes_columns |-> db.boxes_columns,
                     items_check |-> db.items_check]
    /\ settings = {}
    /\ box_seq = Cardinality(boxes)
    /\ item_seq = Cardinality(items)
    /\ log_base = Len(audit_logs)
    /\ fault_count = 0
    /\ boxes_table = LoadBoxes(boxes)
    /\ items_search = <<>>
    /\ items_table = LoadItems(items, items_search)
    /\ box_filter_count = LoadBoxFilter(1, boxes)
    /\ running = TRUE
    /\ last = NoReport

Init == InitWith(StoredFiles, {NoFolder}, {StartTime})

\* ------------------------------------------------------------------ BoxesTab
\* BoxesTab.add_box
AddBox(name_text, location_text, accepted, fault) ==
    /\ Idle
    /\ OpsRoom
    /\ fault_count' = IF accepted /\ BoxDialogSave(name_text, location_text).ok THEN Raised(fault) ELSE fault_count
    /\ box_seq < MaxBoxes
    /\ LET d == BoxDialogSave(name_text, location_text) IN
       IF ~accepted THEN
            /\ last' = Report("add_box", "cancelled", NoneId)
            /\ UNCHANGED <<store, views, running>>
       ELSE IF ~d.ok THEN
            /\ last' = Rejected("add_box", NoneId, d.message)
            /\ UNCHANGED <<store, views, running>>
       ELSE IF fault = "mutation" THEN
            /\ last' = Report("add_box", "error", NoneId)
            /\ audit_logs' = AuditAfterRollback("CREATE", "BOX", NoneId)
            /\ UNCHANGED <<boxes, items, box_seq, item_seq, others, views, running>>
       ELSE LET box_id == box_seq + 1
                details == IF d.location # <<>>
                           THEN <<"Created new box at location: ">> \o d.location
                           ELSE <<"Created new box">>
            IN /\ boxes' = boxes \cup {[id |-> box_id, name |-> d.name, location |-> d.location]}
               /\ box_seq' = box_id
               /\ UNCHANGED <<items, item_seq, items_table, items_search, box_filter_count, running, others>>
               /\ IF fault = "audit" THEN
                      /\ last' = Report("add_box", "error", box_id)
                      /\ UNCHANGED <<audit_logs, boxes_table>>
                  ELSE
                      /\ audit_logs' = LogAction(AuditRow("CREATE", "BOX", box_id, d.name,
                                                          details, NoneText, NoneText))
                      /\ boxes_table' = LoadBoxes(boxes')
                      /\ last' = Report("add_box", "success", box_id)

\* the f-string rendering of a value that may be None or ''
OrNone(t) == IF t = NoneText \/ t = <<>> THEN <<"None">> ELSE t

\* BoxesTab.edit_box, started from the Edit button of a table row
EditBox(row, name_text, location_text, accepted, fault) ==
    /\ Idle
    /\ OpsRoom
    /\ fault_count' = IF accepted /\ BoxDialogSave(name_text, location_text).ok THEN Raised(fault) ELSE fault_count
    /\ row \in boxes_table
    /\ LET d == BoxDialogSave(name_text, location_text)
           box_id == row.box_id
           old_name == row.name
           old_location == row.location
       IN
       IF ~accepted THEN
            /\ last' = Report("edit_box", "cancelled", box_id)
            /\ UNCHANGED <<store, views, running>>
       ELSE IF ~d.ok THEN
            /\ last' = Rejected("edit_box", box_id, d.message)
            /\ UNCHANGED <<store, views, running>>
       ELSE IF fault = "mutation" THEN
            /\ last' = Report("edit_box", "error", box_id)
            /\ audit_logs' = AuditAfterRollback("UPDATE", "BOX", box_id)
            /\ UNCHANGED <<boxes, items, box_seq, item_seq, others, views, running>>
       ELSE LET changes == (IF old_name # d.name
                            THEN <<<<"name: '">> \o old_name \o <<"' -> '">> \o d.name \o <<"'">>>>
                            ELSE <<>>)
                           \o
                           (IF old_location # d.location
                            THEN <<<<"location: '">> \o OrNone(old_location) \o <<"' -> '">>
                                   \o OrNone(d.location) \o <<"'">>>>
                            ELSE <<>>)
                change_details == IF changes # <<>> THEN JoinComma(changes) ELSE <<"No changes">>
            IN \* UPDATE boxes SET name = ?, location = ? WHERE id = ?
               /\ boxes' = {IF b.id = box_id
                            THEN [id |-> b.id, name |-> d.name, location |-> d.location]
                            ELSE b : b \in boxes}
               /\ UNCHANGED <<items, box_seq, item_seq, items_table, items_search,
                              box_filter_count, running, others>>
               /\ IF fault = "audit" THEN
                      /\ last' = Report("edit_box", "error", box_id)
                      /\ UNCHANGED <<audit_logs, boxes_table>>
                  ELSE
                      /\ audit_logs' = LogAction(AuditRow("UPDATE", "BOX", box_id, d.name,
                                change_details,
                                <<"name: ">> \o old_name \o <<", location: ">> \o old_location,
                                <<"name: ">> \o d.name \o <<", location: ">> \o d.location))
                      /\ boxes_table' = LoadBoxes(boxes')
                      /\ last' = Report("edit_box", "success", box_id)

\* BoxesTab.delete_box, started from the Del button of a table row
DeleteBox(row, reply_yes, fault) ==
    /\ Idle
    /\ OpsRoom
    /\ fault_count' = IF reply_yes THEN Raised(fault) ELSE fault_count
    /\ row \in boxes_table
    /\ LET box_id == row.box_id
           box_name == IF box_id \in BoxIds THEN BoxById(box_id).name ELSE <<"Unknown">>
           item_count == ItemCount(box_id)
       IN
       IF ~ReplyIsYes(reply_yes) THEN
            /\ last' = Report("delete_box", "cancelled", box_id)
            /\ UNCHANGED <<store, views, running>>
       ELSE IF fault = "mutation" THEN
            /\ last' = Report("delete_box", "error", box_id)
            /\ audit_logs' = AuditAfterRollback("DELETE", "BOX", box_id)
            /\ UNCHANGED <<boxes, items, box_seq, item_seq, others, views, running>>
       ELSE /\ boxes' = BoxesAfterDelete(box_id)
            /\ items' = ItemsAfterBoxDelete(box_id)
            /\ UNCHANGED <<box_seq, item_seq, items_table, items_search,
                           box_filter_count, running, others>>
            /\ IF fault = "audit" THEN
                   /\ last' = Report("delete_box", "error", box_id)
                   /\ UNCHANGED <<audit_logs, boxes_table>>
               ELSE
                   /\ audit_logs' = LogAction(AuditRow("DELETE", "BOX", box_id, box_name,
                            <<"Deleted box with ">> \o IntToText(item_count) \o <<" items">>,
                            NoneText, NoneText))
                   /\ boxes_table' = LoadBoxes(boxes')
                   /\ last' = Report("delete_box", "success", box_id)

\* ------------------------------------------------------------------ ItemsTab
\* SELECT name FROM boxes WHERE id = ?  (the callers take fetchone()[0])
BoxName(box_id) == BoxById(box_id).name

\* ItemsTab.add_item
AddItem(name_text, box_choice, quantity, accepted, fault) ==
    /\ Idle
    /\ OpsRoom
    /\ fault_count' = IF box_filter_count > 1 /\ accepted
                          /\ ItemDialogSave(name_text, box_choice, quantity).ok THEN Raised(fault) ELSE fault_count
    /\ item_seq < MaxItems
    /\ box_choice \in BoxComboChoices
    /\ LET d == ItemDialogSave(name_text, box_choice, quantity) IN
       IF box_filter_count <= 1 THEN
            /\ last' = Report("add_item", "refused", NoneId)
            /\ UNCHANGED <<store, views, running>>
       ELSE IF ~accepted THEN
            /\ last' = Report("add_item", "cancelled", NoneId)
            /\ UNCHANGED <<store, views, running>>
       ELSE IF ~d.ok THEN
            /\ last' = Rejected("add_item", NoneId, d.message)
            /\ UNCHANGED <<store, views, running>>
       ELSE IF fault = "mutation" \/ ~ItemConstraintsOk(d.box_id, d.quantity, boxes) THEN
            /\ last' = Report("add_item", "error", NoneId)
            /\ audit_logs' = AuditAfterRollback("CREATE", "ITEM", NoneId)
            /\ UNCHANGED <<boxes, items, box_seq, item_seq, others, views, running>>
       ELSE LET item_id == item_seq + 1
                box_name == BoxName(d.box_id)
            IN /\ items' = items \cup {[id |-> item_id, name |-> d.name,
                                        box_id |-> d.box_id, quantity |-> d.quantity]}
               /\ item_seq' = item_id
               /\ UNCHANGED <<boxes, box_seq, boxes_table, items_search, running, others>>
               /\ IF fault = "audit" THEN
                      /\ last' = Report("add_item", "error", item_id)
                      /\ UNCHANGED <<audit_logs, items_table, box_filter_count>>
                  ELSE
                      /\ audit_logs' = LogAction(AuditRow("CREATE", "ITEM", item_id, d.name,
                                <<"Added ">> \o IntToText(d.quantity) \o <<" units to box '">>
                                    \o box_name \o <<"'">>,
                                NoneText, NoneText))
                      /\ items_table' = LoadItems(items', items_search)
                      /\ box_filter_count' = LoadBoxFilter(box_filter_count, boxes)
                      /\ last' = Report("add_item", "success", item_id)

\* str(old_values) / the new_value f-string of edit_item
ItemValueText(name, quantity, box_id) ==
    <<"{'name': '">> \o name \o <<"', 'quantity': ">> \o IntToText(quantity)
        \o <<", 'box_id': ">> \o IntToText(box_id) \o <<"}">>

\* edit_item looks up the old box's name when the box changed and takes
\* fetchone()[0]: a TypeError when that box has no row
EditItemCrashes(row, new_box_id) == row.box_id # new_box_id /\ row.box_id \notin BoxIds

\* ItemsTab.edit_item, started from the Edit button of a table row
EditItem(row, name_text, box_choice, quantity, accepted, fault) ==
    /\ Idle
    /\ OpsRoom
    /\ fault_count' = IF accepted /\ ItemDialogSave(name_text, box_choice, quantity).ok
                          /\ ~(fault = "audit" /\ EditItemCrashes(row, box_choice)) THEN Raised(fault) ELSE fault_count
    /\ row \in items_table
    /\ box_choice \in BoxComboChoices
    /\ LET d == ItemDialogSave(name_text, box_choice, quantity)
           item_id == row.item_id
       IN
       IF ~accepted THEN
            /\ last' = Report("edit_item", "cancelled", item_id)
            /\ UNCHANGED <<store, views, running>>
       ELSE IF ~d.ok THEN
            /\ last' = Rejected("edit_item", item_id, d.message)
            /\ UNCHANGED <<store, views, running>>
       ELSE IF fault = "mutation"
               \/ (item_id \in ItemIds /\ ~ItemConstraintsOk(d.box_id, d.quantity, boxes)) THEN
            /\ last' = Report("edit_item", "error", item_id)
            /\ audit_logs' = AuditAfterRollback("UPDATE", "ITEM", item_id)
            /\ UNCHANGED <<boxes, items, box_seq, item_seq, others, views, running>>
       ELSE \* UPDATE items SET name = ?, box_id = ?, quantity = ? WHERE id = ?; commit
            /\ items' = {IF i.id = item_id
                         THEN [id |-> i.id, name |-> d.name, box_id |-> d.box_id,
                               quantity |-> d.quantity]
                         ELSE i : i \in items}
            /\ UNCHANGED <<boxes, box_seq, item_seq, boxes_table, items_search,
                           box_filter_count, others>>
            /\ IF EditItemCrashes(row, d.box_id) THEN
                   \* fetchone() is None for the old box: TypeError, not caught by
                   \* "except sqlite3.Error"; the slot's exception ends the process
                   /\ running' = FALSE
                   /\ last' = Report("edit_item", "crash", item_id)
                   /\ UNCHANGED <<audit_logs, items_table>>
               ELSE IF fault = "audit" THEN
                   /\ last' = Report("edit_item", "error", item_id)
                   /\ UNCHANGED <<audit_logs, items_table, running>>
               ELSE
                   LET new_box_name == BoxName(d.box_id)
                       changes ==
                           (IF row.name # d.name
                            THEN <<<<"name: '">> \o row.name \o <<"' -> '">> \o d.name \o <<"'">>>>
                            ELSE <<>>)
                           \o
                           (IF row.quantity # d.quantity
                            THEN <<<<"quantity: ">> \o IntToText(row.quantity) \o <<" -> ">>
                                   \o IntToText(d.quantity)>>
                            ELSE <<>>)
                           \o
                           (IF row.box_id # d.box_id
                            THEN <<<<"box: '">> \o BoxName(row.box_id) \o <<"' -> '">>
                                   \o new_box_name \o <<"'">>>>
                            ELSE <<>>)
                   IN /\ audit_logs' = LogAction(AuditRow("UPDATE", "ITEM", item_id, d.name,
                            IF changes # <<>> THEN JoinComma(changes) ELSE <<"No changes">>,
                            ItemValueText(row.name, row.quantity, row.box_id),
                            ItemValueText(d.name, d.quantity, d.box_id)))
                      /\ items_table' = LoadItems(items', items_search)
                      /\ last' = Report("edit_item", "success", item_id)
                      /\ UNCHANGED running

\* ItemsTab.delete_item, started from the Del button of a table row
DeleteItem(row, reply_yes, fault) ==
    /\ Idle
    /\ OpsRoom
    /\ fault_count' = IF reply_yes THEN Raised(fault) ELSE fault_count
    /\ row \in items_table
    /\ LET item_id == row.item_id
           found == item_id \in ItemIds
           item_name == IF found THEN ItemById(item_id).name ELSE <<"Unknown">>
           quantity == IF found THEN ItemById(item_id).quantity ELSE 0
           \* LEFT JOIN boxes: the box name, or None when the box row is missing
           box_name == IF ~found THEN <<"Unknown">>
                       ELSE IF ItemById(item_id).box_id \in BoxIds
                            THEN BoxName(ItemById(item_id).box_id)
                            ELSE NoneText
       IN
       IF ~ReplyIsYes(reply_yes) THEN
            /\ last' = Report("delete_item", "cancelled", item_id)
            /\ UNCHANGED <<store, views, running>>
       ELSE IF fault = "mutation" THEN
            /\ last' = Report("delete_item", "error", item_id)
            /\ audit_logs' = AuditAfterRollback("DELETE", "ITEM", item_id)
            /\ UNCHANGED <<boxes, items, box_seq, item_seq, others, views, running>>
       ELSE \* DELETE FROM items WHERE id = ?; commit
            /\ items' = {i \in items : i.id # item_id}
            /\ UNCHANGED <<boxes, box_seq, item_seq, boxes_table, items_search,
                           box_filter_count, running, others>>
            /\ IF fault = "audit" THEN
                   /\ last' = Report("delete_item", "error", item_id)
                   /\ UNCHANGED <<audit_logs, items_table>>
               ELSE
                   /\ audit_logs' = LogAction(AuditRow("DELETE", "ITEM", item_id, item_name,
                            <<"Deleted ">> \o IntToText(quantity) \o <<" units from box '">>
                                \o box_name \o <<"'">>,
                            NoneText, NoneText))
                   /\ items_table' = LoadItems(items', items_search)
                   /\ last' = Report("delete_item", "success", item_id)

\* ItemsTab.search_input.textChanged -> load_items
ItemsSearchChanged(text) ==
    /\ Idle
    /\ text # items_search
    /\ items_search' = text
    /\ items_table' = LoadItems(items, text)
    /\ last' = Report("search_items", "reloaded", NoneId)
    /\ UNCHANGED <<store, boxes_table, box_filter_count, running, fault_count>>

\* ------------------------------------------------------------------ CSV import
\* a lookup map in which the first row of the query result wins
ExistingBoxesFirstWins(result) ==
    [key \in {Lower(result[i].name) : i \in 1..Len(result)} |->
        LET hits == {i \in 1..Len(result) : Lower(result[i].name) = key}
        IN result[CHOOSE i \in hits : \A j \in hits : i <= j].id]

\* existing_boxes = {name.lower(): box_id for box_id, name in fetchall()}:
\* for each key the last row of the query result wins.  `result` is the
\* result of SELECT id, name FROM boxes, a sequence of box rows.
ExistingBoxes(result) ==
    [key \in {Lower(result[i].name) : i \in 1..Len(result)} |->
        LET hits == {i \in 1..Len(result) : Lower(result[i].name) = key}
        IN result[CHOOSE i \in hits : \A j \in hits : j <= i].id]

\* the orders in which SELECT id, name FROM boxes (no ORDER BY) can return
\* the rows of the table
QueryOrders(bs) ==
    {q \in [1..Cardinality(bs) -> bs] : \A i, j \in 1..Cardinality(bs) : i # j => q[i] # q[j]}

\* a lookup that finds no box id for any name
MapGetNothing(map, key) == NoneId

\* existing_boxes.get(key)
MapGet(map, key) == IF key \in DOMAIN map THEN map[key] ELSE NoneId

\* the quantity check without the floor
QuantityErrorsNoFloor(n, quantity_str) ==
    IF ToInt(quantity_str).ok THEN <<>>
    ELSE <<n \o <<": Invalid quantity '">> \o quantity_str \o <<"' (must be a number)">>>>

\* the quantity check of the validation loop: int(quantity_str), then the floor.
\* n is the row's "Row <row_num>" prefix.
QuantityErrors(n, quantity_str) ==
    LET parsed == ToInt(quantity_str) IN
    IF parsed.ok
    THEN IF parsed.val < 1 THEN <<n \o <<": Quantity must be at least 1">>>> ELSE <<>>
    ELSE <<n \o <<": Invalid quantity '">> \o quantity_str \o <<"' (must be a number)">>>>

\* one pass of the validation loop: the errors of the row and its import_data
\* entry; raised: a field of the row is None (the line has fewer fields than
\* the header) and .strip() raises AttributeError
ValidateRow(row_num, row, existing_boxes) ==
    LET item_name == Strip(row.name)
        box_name == Strip(row.box)
        quantity_str == Strip(row.quantity)
        n == <<"Row ">> \o IntToText(row_num)
        name_errors == IF item_name = <<>> THEN <<n \o <<": Item name is empty">>>> ELSE <<>>
        box_errors ==
            IF box_name = <<>> THEN <<n \o <<": Box name is empty">>>>
            ELSE IF Lower(box_name) \notin DOMAIN existing_boxes
                 THEN <<n \o <<": Box '">> \o box_name \o <<"' does not exist. Create it first.">>>>
                 ELSE <<>>
        parsed == ToInt(quantity_str)
        quantity_errors == QuantityErrors(n, quantity_str)
        errors == name_errors \o box_errors \o quantity_errors
    IN [raised |-> NoneText \in {row.name, row.box, row.quantity},
        errors |-> errors,
        entry |-> [row |-> row_num, name |-> item_name, box_name |-> box_name,
                   box_id |-> MapGet(existing_boxes, Lower(box_name)),
                   quantity |-> IF parsed.ok THEN parsed.val ELSE 0,
                   error |-> errors # <<>>]]

\* the validation loop: enumerate(reader, start=2)
RECURSIVE ValidateRows(_, _, _)
ValidateRows(rows, row_num, existing_boxes) ==
    IF rows = <<>> THEN [raised |-> FALSE, import_data |-> <<>>, validation_errors |-> <<>>]
    ELSE LET v == ValidateRow(row_num, Head(rows), existing_boxes)
             rest == ValidateRows(Tail(rows), row_num + 1, existing_boxes)
         IN [raised |-> v.raised \/ rest.raised,
             import_data |-> <<v.entry>> \o rest.import_data,
             validation_errors |-> v.errors \o rest.validation_errors]

\* a preview dialog that always shows the Import button
PreviewAlwaysAccepts(validation_errors) == TRUE

\* ImportPreviewDialog.setup_ui: the Import button exists only without errors
PreviewCanAccept(validation_errors) == validation_errors = <<>>

\* the same INSERT leaving quantity out of its column list
ImportedItemNoQuantity(id, item) ==
    [id |-> id, name |-> item.name, box_id |-> item.box_id, quantity |-> 1]

\* the row INSERT INTO items (name, box_id, quantity) VALUES (item['name'],
\* item['box_id'], item['quantity']) adds under the AUTOINCREMENT id
ImportedItem(id, item) ==
    [id |-> id, name |-> item.name, box_id |-> item.box_id, quantity |-> item.quantity]

\* the commit loop over import_data from entry k on: the items table, the
\* AUTOINCREMENT sequence and the two counters after it.  The INSERT of the
\* entries in bad_rows raises sqlite3.Error, as does one the constraints refuse.
RECURSIVE CommitRows(_, _, _, _)
CommitRows(import_data, k, bad_rows, acc) ==
    IF k > Len(import_data) THEN acc
    ELSE LET item == import_data[k] IN
         IF item.error THEN CommitRows(import_data, k + 1, bad_rows, acc)
         ELSE IF k \in bad_rows \/ ~ItemConstraintsOk(item.box_id, item.quantity, boxes)
         THEN CommitRows(import_data, k + 1, bad_rows,
                         [acc EXCEPT !.failed_count = @ + 1])
         ELSE CommitRows(import_data, k + 1, bad_rows,
                         [acc EXCEPT !.success_count = @ + 1,
                                     !.seq = @ + 1,
                                     !.items = @ \cup {ImportedItem(acc.seq + 1, item)}])

\* the entries of import_data the commit loop tries to insert
Attempted(import_data) == {k \in 1..Len(import_data) : ~import_data[k].error}

\* the same summary counting the rows tried as imported
ImportDetailsAllImported(success_count, failed_count) ==
    <<"Imported ">> \o IntToText(success_count + failed_count)
        \o <<" items from CSV (">> \o IntToText(0) \o <<" failed)">>

\* f"Imported {success_count} items from CSV ({failed_count} failed)"
ImportDetails(success_count, failed_count) ==
    <<"Imported ">> \o IntToText(success_count)
        \o <<" items from CSV (">> \o IntToText(failed_count) \o <<" failed)">>

\* a header check that lets every file through
HeadersAlwaysOk(fieldnames) == TRUE

\* all(header in reader.fieldnames for header in required_headers)
HeadersOk(fieldnames) == RequiredHeaders \subseteq fieldnames

\* what import_from_csv reports; shown: the preview dialog came up, with
\* these entries and these errors
ImportReport(result, shown, v) ==
    [op |-> "import", result |-> result, id |-> NoneId, message |-> "", shown |-> shown,
     import_data |-> IF shown THEN v.import_data ELSE <<>>,
     validation_errors |-> IF shown THEN v.validation_errors ELSE <<>>]

\* InventoryApp.import_from_csv.  csv: the file picked in the file dialog
\* (chosen = FALSE: the dialog was cancelled; empty: the file has no line and
\* reader.fieldnames is None), its header fields and data rows.
ImportFromCsv(csv, result, confirmed, bad_rows, fault) ==
    /\ Idle
    /\ OpsRoom
    /\ result \in QueryOrders(boxes)
    /\ LET v == ValidateRows(csv.rows, FirstDataRow, ExistingBoxes(result))
           committing == /\ csv.chosen
                         /\ ~csv.empty
                         /\ HeadersOk(csv.headers)
                         /\ ~v.raised
                         /\ v.import_data # <<>>
                         /\ confirmed
           c == CommitRows(v.import_data, 1, bad_rows,
                           [items |-> items, seq |-> item_seq,
                            success_count |-> 0, failed_count |-> 0])
       IN
       /\ confirmed => PreviewCanAccept(v.validation_errors) /\ ~v.raised
       /\ bad_rows \subseteq (IF committing THEN Attempted(v.import_data) ELSE {})
       /\ ~committing => fault = "none"
       /\ OpsDone + Cardinality(bad_rows) < MaxOps
       /\ fault_count' = fault_count + Cardinality(bad_rows) + (IF fault = "none" THEN 0 ELSE 1)
       /\ item_seq + Cardinality(Attempted(v.import_data)) <= MaxItems
       /\ IF ~csv.chosen THEN
              /\ last' = ImportReport("cancelled", FALSE, v)
              /\ UNCHANGED <<store, views, running>>
          ELSE IF csv.empty THEN
              \* header in None raises TypeError: "Import Failed"
              /\ last' = ImportReport("error", FALSE, v)
              /\ UNCHANGED <<store, views, running>>
          ELSE IF ~HeadersOk(csv.headers) THEN
              /\ last' = ImportReport("format_error", FALSE, v)
              /\ UNCHANGED <<store, views, running>>
          ELSE IF v.raised THEN
              \* None.strip() raises AttributeError: "Import Failed"
              /\ last' = ImportReport("error", FALSE, v)
              /\ UNCHANGED <<store, views, running>>
          ELSE IF v.import_data = <<>> THEN
              /\ last' = ImportReport("no_data", FALSE, v)
              /\ UNCHANGED <<store, views, running>>
          ELSE IF ~confirmed THEN
              /\ last' = ImportReport(IF v.validation_errors # <<>> THEN "refused"
                                      ELSE "cancelled", TRUE, v)
              /\ UNCHANGED <<store, views, running>>
          ELSE /\ items' = c.items
               /\ item_seq' = c.seq
               /\ UNCHANGED <<boxes, box_seq, boxes_table, items_search, running, others>>
               /\ IF fault # "none" THEN
                      \* log_action raises: "Import Failed", after the commit
                      /\ last' = ImportReport("error", TRUE, v)
                      /\ UNCHANGED <<audit_logs, items_table, box_filter_count>>
                  ELSE
                      /\ audit_logs' = LogAction(AuditRow("IMPORT", "INVENTORY", NoneId, NoneText,
                              ImportDetails(c.success_count, c.failed_count),
                              NoneText, NoneText))
                      /\ items_table' = LoadItems(items', items_search)
                      /\ box_filter_count' = LoadBoxFilter(box_filter_count, boxes)
                      /\ last' = ImportReport("success", TRUE, v)

\* ------------------------------------------------------------------ settings
\* the codes of the Language menu: the default and one other
Languages == {"en", "sr"}

\* INSERT OR REPLACE INTO settings (key, value) VALUES (key, value), after
\* CREATE TABLE IF NOT EXISTS settings
SettingsPutDuplicating(key, value) == settings \cup {[key |-> key, value |-> value]}

SettingsPut(key, value) ==
    {r \in settings : r.key # key} \cup {[key |-> key, value |-> value]}

\* ModernStyle.current_theme: "dark" unless a saved preference was loaded
CurrentTheme ==
    IF \E r \in settings : r.key = "theme"
    THEN (CHOOSE r \in settings : r.key = "theme").value
    ELSE "dark"

\* InventoryApp.change_language, from an entry of the Language menu
ChangeLanguage(language_code) ==
    /\ Idle
    /\ OpsRoom
    /\ language_code \in Languages
    /\ settings' = SettingsPut("language", language_code)
    /\ audit_logs' = LogAction(AuditRow("LANGUAGE_CHANGE", "SETTINGS", NoneId, NoneText,
                                         <<"Language changed to ", language_code>>,
                                         NoneText, NoneText))
    /\ last' = Report("change_language", "success", NoneId)
    /\ UNCHANGED <<boxes, items, box_seq, item_seq, log_base, schema, backup_folder, now,
                   views, running, fault_count>>

\* InventoryApp.toggle_theme
ToggleTheme ==
    /\ Idle
    /\ OpsRoom
    /\ LET new_theme == IF CurrentTheme = "dark" THEN "light" ELSE "dark" IN
       /\ settings' = SettingsPut("theme", new_theme)
       /\ audit_logs' = LogAction(AuditRow("THEME_CHANGE", "SETTINGS", NoneId, NoneText,
                                            <<"Theme changed to ", new_theme>>,
                                            NoneText, NoneText))
    /\ last' = Report("toggle_theme", "success", NoneId)
    /\ UNCHANGED <<boxes, items, box_seq, item_seq, log_base, schema, backup_folder, now,
                   views, running, fault_count>>

\* ------------------------------------------------------------------ backup
\* a backup report: copied is TRUE once shutil.copy2 has returned
BackupReport(result, copied, file) ==
    [op |-> "backup_database", result |-> result, id |-> NoneId, message |-> "",
     copied |-> copied, file |-> file]

\* InventoryApp.backup_database.  fault "mutation": shutil.copy2 raises, and partial
\* tells whether it left the destination file behind; fault "audit": log_action
\* raises after the copy.
DoBackup(fault, partial) ==
    /\ fault_count' = Raised(fault)
    /\ LET backup_filename == BackupFilename(now)
           with_file == [exists |-> TRUE, files |-> backup_folder.files \cup {backup_filename}]
       IN
       IF fault = "mutation"
       THEN /\ backup_folder' = IF partial THEN with_file
                                ELSE [exists |-> TRUE, files |-> backup_folder.files]
            /\ last' = BackupReport("error", FALSE, backup_filename)
            /\ UNCHANGED audit_logs
       ELSE /\ backup_folder' = with_file
            /\ IF fault = "audit"
               THEN /\ last' = BackupReport("error", TRUE, backup_filename)
                    /\ UNCHANGED audit_logs
               ELSE /\ audit_logs' = LogAction(AuditRow("BACKUP", "DATABASE", NoneId, NoneText,
                                                <<"Database backed up to ">> \o backup_filename,
                                                NoneText, NoneText))
                    /\ last' = BackupReport("success", TRUE, backup_filename)
    /\ UNCHANGED <<boxes, items, box_seq, item_seq, log_base, schema, settings, now,
                   views, running>>

\* backup_database from the File menu
BackupDatabase(fault, partial) == Idle /\ OpsRoom /\ DoBackup(fault, partial)

\* the window is closed and the program is started again on the same files:
\* closeEvent, then InventoryApp.__init__ up to the prompt of
\* check_backup_status, where there is one
Restart ==
    /\ Idle
    /\ OpsRoom
    /\ LET closed == LogAction(AuditRow("SHUTDOWN", "APPLICATION", NoneId, NoneText,
                                        <<"Application closed">>, NoneText, NoneText))
           db == SetupDatabase([tables |-> schema.tables,
                                boxes_columns |-> schema.boxes_columns,
                                items_check |-> schema.items_check,
                                boxes |-> boxes, items |-> items, audit_logs |-> closed])
           prompt == BackupPrompt(backup_folder, now)
       IN
       /\ boxes' = db.boxes
       /\ items' = db.items
       /\ audit_logs' = db.audit_logs
       /\ schema' = [tables |-> db.tables, boxes_columns |-> db.boxes_columns,
                     items_check |-> db.items_check]
       /\ boxes_table' = LoadBoxes(db.boxes)
       /\ items_search' = <<>>
       /\ items_table' = LoadItems(db.items, <<>>)
       /\ box_filter_count' = LoadBoxFilter(1, db.boxes)
       /\ last' = IF prompt = "" THEN NoReport
                  ELSE [op |-> "check_backup_status", result |-> "prompt", id |-> NoneId,
                        message |-> prompt]
    /\ UNCHANGED <<box_seq, item_seq, log_base, settings, backup_folder, now, running,
                   fault_count>>

\* Yes to the prompt of check_backup_status (No is Dismiss)
BackupPromptYes(fault, partial) ==
    /\ running
    /\ last.op = "check_backup_status"
    /\ DoBackup(fault, partial)

\* time passes
Tick ==
    /\ Idle
    /\ now < StartTime + MaxTicks
    /\ now' = now + 1
    /\ UNCHANGED <<boxes, items, audit_logs, box_seq, item_seq, log_base, schema, settings,
                   backup_folder, views, running, fault_count, last>>

\* ------------------------------------------------------------------ HistoryTab
\* the entries of the two filter combo boxes (currentData None is "") and
\* the texts typed into the search box
ActionFilters == {"", "CREATE", "UPDATE", "DELETE"}

EntityFilters == {"", "ITEM", "BOX"}

HistorySearchInputs == {<<>>, <<"A", " ">>}

\* the WHERE clause load_logs builds: a filter that is not set adds no
\* condition; entity_name LIKE ? is not true of a NULL entity_name
LogMatches(row, action, entity_type, search_text) ==
    /\ action = "" \/ row.action = action
    /\ entity_type = "" \/ row.entity_type = entity_type
    /\ \/ Strip(search_text) = <<>>
       \/ row.entity_name # NoneText /\ Like(row.entity_name, Strip(search_text))

Reverse(s) == [i \in 1..Len(s) |-> s[Len(s) + 1 - i]]

\* the same query with ORDER BY id ASC
QueryLogsAscending(logs, action, entity_type, search_text, limit) ==
    LET hits == SelectSeq(logs, LAMBDA row : LogMatches(row, action, entity_type, search_text))
    IN SubSeq(hits, 1, IF Len(hits) > limit THEN limit ELSE Len(hits))

\* SELECT ... FROM audit_logs WHERE ... ORDER BY id DESC LIMIT limit
QueryLogs(logs, action, entity_type, search_text, limit) ==
    LET hits == SelectSeq(logs, LAMBDA row : LogMatches(row, action, entity_type, search_text))
        newest_first == Reverse(hits)
    IN SubSeq(newest_first, 1, IF Len(hits) > limit THEN limit ELSE Len(hits))

\* HistoryTab.load_logs, from a change of a filter or the Refresh button: the
\* rows it puts into the table
LoadLogs(action, entity_type, search_text) ==
    /\ Idle
    /\ last' = [op |-> "load_logs", result |-> "reloaded", id |-> NoneId, message |-> "",
                action_filter |-> action, entity_filter |-> entity_type,
                search_text |-> search_text,
                rows |-> QueryLogs(audit_logs, action, entity_type, search_text, LogLimit)]
    /\ UNCHANGED <<store, views, running, fault_count>>

\* ------------------------------------------------------------------ src/inv.py
\* the module level of inv.py on a file: CREATE TABLE IF NOT EXISTS boxes and
\* items, boxes without location and items without CHECK; tables that exist
\* stay as they are
CliSetup(file) ==
    [tables |-> file.tables \cup {"boxes", "items"},
     boxes_columns |-> IF "boxes" \in file.tables THEN file.boxes_columns ELSE {"id", "name"},
     items_check |-> IF "items" \in file.tables THEN file.items_check ELSE FALSE,
     boxes |-> file.boxes, items |-> file.items, audit_logs |-> file.audit_logs]

\* the files inv.py can be started on: none, one of the single-file GUI, and
\* files the GUI has set up
CliFiles == {NewFile, LegacyFile, SetupDatabase(BoxFile), SetupDatabase(ItemFile)}

\* the state after the module level of inv.py; no window is open
InitCli ==
    /\ \E file \in CliFiles :
        LET db == CliSetup(file) IN
        /\ boxes = db.boxes
        /\ items = db.items
        /\ audit_logs = db.audit_logs
        /\ schema = [tables |-> db.tables, boxes_columns |-> db.boxes_columns,
                     items_check |-> db.items_check]
    /\ settings = {}
    /\ backup_folder = NoFolder
    /\ now = StartTime
    /\ box_seq = Cardinality(boxes)
    /\ item_seq = Cardinality(items)
    /\ log_base = Len(audit_logs)
    /\ fault_count = 0
    /\ boxes_table = {}
    /\ items_search = <<>>
    /\ items_table = {}
    /\ box_filter_count = 0
    /\ running = TRUE
    /\ last = NoReport

\* what is typed at the prompts of inv.py
CliBoxIdInputs == {<<"1">>, <<"7">>}
CliItemIdInputs == {<<"1">>, <<"2">>}
CliQtyInputs == {<<>>, <<"0">>, <<"2">>, <<"-", "1">>, <<"q">>, <<" ", "1">>}

\* str.isdigit()
IsDigitText(t) == t # <<>> /\ \A i \in 1..Len(t) : IsDigit(t[i])

\* the views of the GUI, which is not running
cli_frame == <<audit_logs, log_base, settings, backup_folder, now, views, fault_count>>

\* inv.py add_box
CliAddBox(name_text) ==
    /\ running
    /\ box_seq < MaxBoxes
    /\ box_seq' = box_seq + 1
    /\ boxes' = boxes \cup
          {IF "location" \in schema.boxes_columns
           THEN [id |-> box_seq + 1, name |-> Strip(name_text), location |-> NoneText]
           ELSE [id |-> box_seq + 1, name |-> Strip(name_text)]}
    /\ last' = Report("cli_add_box", "success", box_seq + 1)
    /\ UNCHANGED <<items, item_seq, schema, running, cli_frame>>

\* inv.py add_item; foreign keys are not enforced (no PRAGMA), and an
\* IntegrityError of the CHECK of a table the GUI created is not caught
CliAddItem(box_id_text, name_text, quantity_text) ==
    /\ running
    /\ item_seq < MaxItems
    /\ LET stripped == Strip(quantity_text)
           quantity == IF IsDigitText(stripped) THEN DigitsVal(stripped) ELSE 1
       IN IF schema.items_check /\ quantity <= 0
          THEN /\ running' = FALSE
               /\ last' = Report("cli_add_item", "crashed", NoneId)
               /\ UNCHANGED <<items, item_seq>>
          ELSE /\ items' = items \cup {[id |-> item_seq + 1, name |-> Strip(name_text),
                                        box_id |-> DigitsVal(Strip(box_id_text)),
                                        quantity |-> quantity]}
               /\ item_seq' = item_seq + 1
               /\ last' = Report("cli_add_item", "success", item_seq + 1)
               /\ UNCHANGED running
    /\ UNCHANGED <<boxes, box_seq, schema, cli_frame>>

\* inv.py edit_item_quantity
CliEditItemQuantity(item_id_text, quantity_text) ==
    /\ running
    /\ LET new_qty == Strip(quantity_text)
           item_id == DigitsVal(Strip(item_id_text))
       IN IF ~IsDigitText(new_qty)
          THEN /\ last' = Rejected("cli_edit_item_quantity", item_id, "Invalid quantity.")
               /\ UNCHANGED <<items, running>>
          ELSE IF schema.items_check /\ DigitsVal(new_qty) <= 0 /\ item_id \in ItemIds
          THEN /\ running' = FALSE
               /\ last' = Report("cli_edit_item_quantity", "crashed", item_id)
               /\ UNCHANGED items
          ELSE /\ items' = {IF i.id = item_id THEN [i EXCEPT !.quantity = DigitsVal(new_qty)]
                            ELSE i : i \in items}
               /\ last' = Report("cli_edit_item_quantity", "success", item_id)
               /\ UNCHANGED running
    /\ UNCHANGED <<boxes, box_seq, item_seq, schema, cli_frame>>

\* ------------------------------------------------------------------ exports
\* the ids of a set of rows in ascending order (ORDER BY items.id)
InIdOrder(ids) ==
    CHOOSE q \in [1..Cardinality(ids) -> ids] :
        \A i, j \in 1..Cardinality(ids) : i < j => q[i] < q[j]

\* item[2] or "N/A": the box name of the LEFT JOIN, NULL where the item's box
\* has no row
BoxNameOrNA(box_id, bs) ==
    LET hits == {b \in bs : b.id = box_id} IN
    IF hits = {} \/ (CHOOSE b \in hits : TRUE).name \in {<<>>, NoneText}
    THEN <<"N/A">>
    ELSE (CHOOSE b \in hits : TRUE).name

\* the data rows export_to_csv writes under its header: id, name, box name or
\* "N/A", quantity (the csv writer renders the numbers with str())
InventoryRows(is, bs) ==
    LET ids == InIdOrder({i.id : i \in is}) IN
    [k \in 1..Len(ids) |->
        LET item == CHOOSE i \in is : i.id = ids[k] IN
        <<IntToText(item.id), item.name, BoxNameOrNA(item.box_id, bs),
          IntToText(item.quantity)>>]

\* the data rows export_logs_to_csv writes: the audit rows, ORDER BY id DESC
LogRows(logs) == Reverse(logs)

\* the number of example rows export_import_template writes: one for each of
\* the first TemplateLimit boxes, or TemplateLimit placeholder rows without boxes
TemplateExamples(bs) ==
    IF bs = {} THEN TemplateLimit
    ELSE IF Cardinality(bs) > TemplateLimit THEN TemplateLimit ELSE Cardinality(bs)

\* what an export reports; written: the file was written and closed, with
\* these data rows (for the template: this many example rows)
ExportReport(op, result, written, rows, examples) ==
    [op |-> op, result |-> result, id |-> NoneId, message |-> "",
     written |-> written, rows |-> rows, examples |-> examples]

\* an export that writes its file and leaves the audit table alone
ExportNotLogged(entity_type, details) == audit_logs

\* self.log_action(action="EXPORT", entity_type=..., details=...)
ExportLogged(entity_type, details) ==
    LogAction(AuditRow("EXPORT", entity_type, NoneId, NoneText, details, NoneText, NoneText))

\* the body the three exports share, started from the event loop: the file dialog, the try block that
\* writes the file and calls log_action, "except Exception".  fault
\* "mutation": open(), the query or a write raises; fault "audit": log_action
\* raises after the file was closed.
DoExport(op, chosen, fault, entity_type, details, rows, examples) ==
    /\ ~chosen => fault = "none"
    /\ fault_count' = Raised(fault)
    /\ IF ~chosen THEN
           /\ last' = ExportReport(op, "cancelled", FALSE, <<>>, 0)
           /\ UNCHANGED audit_logs
       ELSE IF fault = "mutation" THEN
           /\ last' = ExportReport(op, "error", FALSE, <<>>, 0)
           /\ UNCHANGED audit_logs
       ELSE IF fault = "audit" THEN
           /\ last' = ExportReport(op, "error", TRUE, rows, examples)
           /\ UNCHANGED audit_logs
       ELSE
           /\ audit_logs' = ExportLogged(entity_type, details)
           /\ last' = ExportReport(op, "success", TRUE, rows, examples)
    /\ UNCHANGED <<boxes, items, box_seq, item_seq, others, views, running>>

\* InventoryApp.export_to_csv
ExportToCsv(chosen, fault) ==
    /\ Idle
    /\ OpsRoom
    /\ LET rows == InventoryRows(items, boxes) IN
       DoExport("export_to_csv", chosen, fault, "INVENTORY",
                <<"Exported ">> \o IntToText(Len(rows)) \o <<" items to CSV">>, rows, 0)

\* InventoryApp.export_logs_to_csv
ExportLogsToCsv(chosen, fault) ==
    /\ Idle
    /\ OpsRoom
    /\ LET logs == LogRows(audit_logs) IN
       DoExport("export_logs_to_csv", chosen, fault, "LOGS",
                <<"Exported ">> \o IntToText(Len(logs)) \o <<" audit logs to CSV">>, logs, 0)

\* InventoryApp.export_import_template
ExportImportTemplate(chosen, fault) ==
    /\ Idle
    /\ OpsRoom
    /\ DoExport("export_import_template", chosen, fault, "TEMPLATE",
                <<"Exported CSV import template">>, <<>>, TemplateExamples(boxes))

\* The handler's modal message box (or dialog) is closed and control is back
\* in the event loop.
Dismiss ==
    /\ running
    /\ last # NoReport
    /\ last' = NoReport
    /\ UNCHANGED <<store, views, running, fault_count>>

\* one step of the event loop; F: the outcomes the store can answer a handler with
NextWith(F) ==
    \/ Dismiss
    \/ AddBox(<<>>, <<>>, FALSE, "none")
    \/ \E n \in BoxNameInputs, l \in LocationInputs, f \in F :
            AddBox(n, l, TRUE, f)
    \/ \E row \in boxes_table : EditBox(row, <<>>, <<>>, FALSE, "none")
    \/ \E row \in boxes_table, n \in BoxNameInputs, l \in LocationInputs, f \in F :
            EditBox(row, n, l, TRUE, f)
    \/ \E row \in boxes_table : DeleteBox(row, FALSE, "none")
    \/ \E row \in boxes_table, f \in F : DeleteBox(row, TRUE, f)
    \/ AddItem(<<>>, CHOOSE b \in BoxComboChoices : TRUE, 1, FALSE, "none")
    \/ \E n \in ItemNameInputs, b \in BoxComboChoices, q \in QtyInputs, f \in F :
            AddItem(n, b, q, TRUE, f)
    \/ \E row \in items_table :
            EditItem(row, <<>>, CHOOSE b \in BoxComboChoices : TRUE, 1, FALSE, "none")
    \/ \E row \in items_table, n \in ItemNameInputs, b \in BoxComboChoices,
          q \in QtyInputs, f \in F :
            EditItem(row, n, b, q, TRUE, f)
    \/ \E row \in items_table : DeleteItem(row, FALSE, "none")
    \/ \E row \in items_table, f \in F : DeleteItem(row, TRUE, f)
    \/ \E text \in SearchInputs : ItemsSearchChanged(text)
    \/ \E language_code \in Languages : ChangeLanguage(language_code)
    \/ ToggleTheme
    \/ \E f \in F, partial \in BOOLEAN : BackupDatabase(f, partial)
    \/ Restart
    \/ \E f \in F, partial \in BOOLEAN : BackupPromptYes(f, partial)
    \/ \E csv \in CsvInputs, result \in QueryOrders(boxes) :
            ImportFromCsv(csv, result, FALSE, {}, "none")
    \/ \E csv \in CsvInputs, result \in QueryOrders(boxes) :
            /\ PreviewCanAccept(
                    ValidateRows(csv.rows, FirstDataRow, ExistingBoxes(result)).validation_errors)
            /\ \E bad_rows \in (IF F = {"none"} THEN {{}} ELSE SUBSET (1..Len(csv.rows))), f \in F \ {"mutation"} :
                    ImportFromCsv(csv, result, TRUE, bad_rows, f)

Next == NextWith(Faults)

Spec == Init /\ [][Next]_vars

\* the same program on a store that raises no exception
NextNoFault == NextWith({"none"})

SpecNoFault == Init /\ [][NextNoFault]_vars

\* the program with the History tab in use, on a store that raises no exception
NextHistory ==
    \/ NextNoFault
    \/ \E action \in ActionFilters, entity_type \in EntityFilters,
          search_text \in HistorySearchInputs :
            LoadLogs(action, entity_type, search_text)

SpecHistory == Init /\ [][NextHistory]_vars

\* the program with the exports of the File menu and of the History tab in use
NextExport ==
    \/ Next
    \/ \E chosen \in BOOLEAN, f \in Faults : ExportToCsv(chosen, f)
    \/ \E chosen \in BOOLEAN, f \in Faults : ExportLogsToCsv(chosen, f)
    \/ \E chosen \in BOOLEAN, f \in Faults : ExportImportTemplate(chosen, f)

SpecExport == Init /\ [][NextExport]_vars

\* the program over some days, used for its backups only
InitBackup == InitWith({BoxFile}, StoredFolders, {StartTime})

NextBackup ==
    \/ Dismiss
    \/ Tick
    \/ \E f \in Faults, partial \in BOOLEAN : BackupDatabase(f, partial)
    \/ Restart
    \/ \E f \in Faults, partial \in BOOLEAN : BackupPromptYes(f, partial)

SpecBackup == InitBackup /\ [][NextBackup]_vars

\* the command-line front end src/inv.py: its menu loop
NextCli ==
    \/ \E name_text \in BoxNameInputs : CliAddBox(name_text)
    \/ \E box_id_text \in CliBoxIdInputs, name_text \in {TxtX}, quantity_text \in CliQtyInputs :
            CliAddItem(box_id_text, name_text, quantity_text)
    \/ \E item_id_text \in CliItemIdInputs, quantity_text \in CliQtyInputs :
            CliEditItemQuantity(item_id_text, quantity_text)

SpecCli == InitCli /\ [][NextCli]_vars

\* ------------------------------------------------------------------ properties
\* the step appended exactly n rows to audit_logs and kept the rows it had
Appended(n) ==
    /\ Len(audit_logs') = Len(audit_logs) + n
    /\ SubSeq(audit_logs', 1, Len(audit_logs)) = audit_logs

\* the rows of audit_logs this session wrote
SessionRows == {audit_logs[k] : k \in (log_base + 1)..Len(audit_logs)}

\* the handlers that are the box and item operations, with the action and
\* entity type of their audit entry
EntityOps == {"add_box", "edit_box", "delete_box", "add_item", "edit_item", "delete_item"}

OpAction(op) ==
    IF op \in {"add_box", "add_item"} THEN "CREATE"
    ELSE IF op \in {"edit_box", "edit_item"} THEN "UPDATE"
    ELSE "DELETE"

OpEntity(op) == IF op \in {"add_box", "edit_box", "delete_box"} THEN "BOX" ELSE "ITEM"

\* C1 (audit completeness): a box or item operation that reports success
\* appended exactly one audit row, with the action and entity type of the
\* operation; one that was refused by validation, by a missing reference or by
\* the store appended none.
C1_AuditCompleteness ==
    [][(last' # last /\ last'.op \in EntityOps) =>
          /\ last'.result = "success" =>
                /\ Appended(1)
                /\ audit_logs'[Len(audit_logs')].action = OpAction(last'.op)
                /\ audit_logs'[Len(audit_logs')].entity_type = OpEntity(last'.op)
          /\ last'.result \in {"rejected", "refused", "error"} =>
                audit_logs' = audit_logs]_vars

\* C1 witness: an item was refused by the dialog in a session that has
\* created a box and logged it
C1_Witness ==
    /\ last.op = "add_item"
    /\ last.result = "rejected"
    /\ \E r \in SessionRows : r.action = "CREATE" /\ r.entity_type = "BOX"

\* C2 (mutation and audit entry are one committed unit): a step that changes
\* the boxes or the items also appends their audit row; no step leaves a
\* committed mutation without it.
C2_MutationAndAuditOneUnit ==
    [][(boxes' # boxes \/ items' # items) => Len(audit_logs') = Len(audit_logs) + 1]_vars

\* C3 (referential integrity): every item's box_id names an existing box, and
\* once delete_box has deleted box b, b is gone and no item has box_id = b.
C3_ReferentialIntegrity ==
    /\ \A i \in items : i.box_id \in BoxIds
    /\ (last.op = "delete_box" /\ last.result = "success") =>
            /\ last.id \notin BoxIds
            /\ \A i \in items : i.box_id # last.id

\* C3 witness: delete_box has deleted a box that held items (the Items tab
\* still lists them)
C3_Witness ==
    /\ last.op = "delete_box"
    /\ last.result = "success"
    /\ \E r \in items_table : r.box_id = last.id

\* a data row of a CSV file whose quantity is a number below 1
RowBelowFloor(row) ==
    LET parsed == ToInt(Strip(row.quantity)) IN parsed.ok /\ parsed.val < 1

\* C4 (quantity floor): every stored item has quantity >= 1, and an attempt
\* to write a quantity below 1 (add_item, edit_item, a CSV row) is refused:
\* boxes, items and audit_logs stay as they were.
C4_QuantityFloor ==
    /\ [](\A i \in items : i.quantity >= 1)
    /\ [][
           /\ last'.op = "add_item" =>
               \A n \in ItemNameInputs, b \in BoxComboChoices, q \in QtyInputs, f \in Faults :
                  (q < 1 /\ AddItem(n, b, q, TRUE, f)) =>
                      /\ last'.result \in {"rejected", "refused"}
                      /\ UNCHANGED <<boxes, items, audit_logs>>
           /\ last'.op = "edit_item" =>
               \A row \in items_table, n \in ItemNameInputs, b \in BoxComboChoices,
                  q \in QtyInputs, f \in Faults :
                  (q < 1 /\ EditItem(row, n, b, q, TRUE, f)) =>
                      /\ last'.result = "rejected"
                      /\ UNCHANGED <<boxes, items, audit_logs>>
           /\ last'.op = "import" =>
               \A csv \in CsvInputs, result \in QueryOrders(boxes), confirmed \in BOOLEAN,
                  bad_rows \in SUBSET (1..MaxRows), f \in Faults :
                  (/\ \E k \in 1..Len(csv.rows) : RowBelowFloor(csv.rows[k])
                   /\ ImportFromCsv(csv, result, confirmed, bad_rows, f)) =>
                      /\ last'.result \in {"refused", "format_error", "cancelled"}
                      /\ UNCHANGED <<boxes, items, audit_logs>>]_vars

\* C4 witness: the item dialog refused a quantity below 1 while the store
\* holds an item
C4_Witness ==
    /\ last.op = "edit_item"
    /\ last.result = "rejected"
    /\ last.message = "Quantity must be at least 1"
    /\ items # {}

\* C5 (import gating): an import of a CSV file with at least one validation
\* error inserts no item and writes no IMPORT entry, whatever the operator
\* answers in the preview.
C5_ImportGating ==
    [][last'.op = "import" =>
         \A csv \in CsvInputs, result \in QueryOrders(boxes), confirmed \in BOOLEAN,
            bad_rows \in SUBSET (1..MaxRows), f \in Faults :
            (/\ ValidateRows(csv.rows, FirstDataRow, ExistingBoxes(result)).validation_errors # <<>>
             /\ ImportFromCsv(csv, result, confirmed, bad_rows, f)) =>
                /\ items' = items
                /\ audit_logs' = audit_logs
                /\ last'.result # "success"]_vars

\* C5 witness: the preview refused a file although the store has a box its
\* valid rows could have gone to
C5_Witness ==
    /\ last.op = "import"
    /\ last.result = "refused"
    /\ boxes # {}

\* the rows a step appended to audit_logs with this action and entity type
NewRows(action, entity_type) ==
    {k \in (Len(audit_logs) + 1)..Len(audit_logs') :
        audit_logs'[k].action = action /\ audit_logs'[k].entity_type = entity_type}

\* C6 (import commit counts): when the operator confirms a CSV file without
\* validation errors and the store raises nothing, each data row becomes one
\* new item with the row's name, quantity and box, and one IMPORT entry is
\* appended.
C6_ImportCommitCounts ==
    [][last'.op = "import" =>
         \A csv \in CsvInputs, result \in QueryOrders(boxes) :
            (/\ csv.chosen
             /\ RequiredHeaders \subseteq csv.headers
             /\ csv.rows # <<>>
             /\ ValidateRows(csv.rows, FirstDataRow, ExistingBoxes(result)).validation_errors = <<>>
             /\ ImportFromCsv(csv, result, TRUE, {}, "none")) =>
                /\ items \subseteq items'
                /\ Cardinality(items' \ items) = Len(csv.rows)
                /\ \A k \in 1..Len(csv.rows) :
                      \E i \in items' \ items :
                         /\ i.id = item_seq + k
                         /\ i.name = Strip(csv.rows[k].name)
                         /\ i.quantity = ToInt(Strip(csv.rows[k].quantity)).val
                         /\ i.box_id \in BoxIds
                         /\ Lower(BoxById(i.box_id).name) = Lower(Strip(csv.rows[k].box))
                /\ Appended(1)
                /\ Cardinality(NewRows("IMPORT", "INVENTORY")) = 1]_vars

\* C6 witness: an import of two rows went through
C6_Witness ==
    /\ last.op = "import"
    /\ last.result = "success"
    /\ audit_logs # <<>>
    /\ audit_logs[Len(audit_logs)].details
          = <<"Imported ", "2", " items from CSV (", "0", " failed)">>

\* C7 (imported rows are audited as item creations): an import that went
\* through appended one CREATE/ITEM entry for every item it inserted, next to
\* its IMPORT entry.
C7_ImportedRowsAudited ==
    [][(last'.op = "import" /\ last'.result = "success") =>
          /\ Cardinality(NewRows("CREATE", "ITEM")) = Cardinality(items' \ items)
          /\ Cardinality(NewRows("IMPORT", "INVENTORY")) = 1]_vars

\* C8 (cascade delete is one operation): delete_box on box b removes b and
\* the N items in it and appends one entry, DELETE/BOX for b with details
\* "Deleted box with N items"; it appends no DELETE/ITEM entry.
C8_CascadeDelete ==
    [][(last'.op = "delete_box" /\ last'.result = "success") =>
          /\ boxes' = {b \in boxes : b.id # last'.id}
          /\ items' = {i \in items : i.box_id # last'.id}
          /\ Appended(1)
          /\ NewRows("DELETE", "ITEM") = {}
          /\ audit_logs'[Len(audit_logs')].action = "DELETE"
          /\ audit_logs'[Len(audit_logs')].entity_type = "BOX"
          /\ audit_logs'[Len(audit_logs')].entity_id = last'.id
          /\ audit_logs'[Len(audit_logs')].details
                = <<"Deleted box with ">>
                    \o IntToText(Cardinality({i \in items : i.box_id = last'.id}))
                    \o <<" items">>]_vars

\* C8 witness: a box holding one item was deleted (the Items tab still lists
\* the item)
C8_Witness ==
    /\ last.op = "delete_box"
    /\ last.result = "success"
    /\ audit_logs[Len(audit_logs)].details = <<"Deleted box with ", "1", " items">>
    /\ \E r \in items_table : r.box_id = last.id

\* C9 (audit log is append-only): no step changes or removes a row of
\* audit_logs; a step only adds rows at the end.
C9_AuditAppendOnly ==
    [][/\ Len(audit_logs') >= Len(audit_logs)
       /\ SubSeq(audit_logs', 1, Len(audit_logs)) = audit_logs]_vars

\* C9 witness: the entry that logged a box's creation is still there, with
\* the name the box had, after the box was deleted
C9_Witness ==
    \E k \in 1..Len(audit_logs) :
        /\ audit_logs[k].action = "CREATE"
        /\ audit_logs[k].entity_type = "BOX"
        /\ audit_logs[k].entity_id \notin BoxIds
        /\ audit_logs[k].entity_name = TxtA
        /\ \E j \in (k + 1)..Len(audit_logs) :
              audit_logs[j].action = "DELETE" /\ audit_logs[j].entity_id = audit_logs[k].entity_id

\* C10 (deleting a missing item fails): delete_item on an id that has no row
\* does not report success, leaves boxes, items and audit_logs as they were
\* and so writes no DELETE/ITEM entry.
C10_DeleteMissingItemFails ==
    [][(/\ last'.op = "delete_item"
        /\ last'.result # "cancelled"
        /\ last'.id \notin ItemIds) =>
            /\ last'.result # "success"
            /\ UNCHANGED <<boxes, items, audit_logs>>]_vars

\* C11 (box operations on a missing id fail): delete_box and edit_box on an
\* id that has no row in boxes do not report success, leave boxes, items and
\* audit_logs as they were and so write no audit entry.
C11_MissingBoxFails ==
    [][(/\ last'.op \in {"delete_box", "edit_box"}
        /\ last'.result \notin {"cancelled", "rejected"}
        /\ last'.id \notin BoxIds) =>
            /\ last'.result # "success"
            /\ UNCHANGED <<boxes, items, audit_logs>>]_vars

\* C12 (add_item validates before it writes): add_item with an empty name, a
\* name of more than 255 characters or a box choice that is no stored box is
\* refused: no item is inserted and no audit entry is written.
C12_AddItemValidation ==
    [][last'.op = "add_item" =>
         \A n \in ItemNameInputs, b \in BoxComboChoices, q \in QtyInputs, f \in Faults :
            (/\ Strip(n) = <<>> \/ Len(Strip(n)) > MaxNameLen \/ b \notin BoxIds
             /\ AddItem(n, b, q, TRUE, f)) =>
                /\ last'.result \in {"rejected", "refused"}
                /\ UNCHANGED <<boxes, items, item_seq, audit_logs>>]_vars

\* C12 witness: the item dialog refused to save because no stored box could
\* be chosen
C12_Witness ==
    /\ last.op = "add_item"
    /\ last.result = "rejected"
    /\ last.message = "Please select a box"
    /\ boxes = {}

\* a literal part of the text of an audit row's details
HasPart(details, part) == \E k \in 1..Len(details) : details[k] = part

\* a box without a location: the column is NULL or the empty text
NoLocation(location) == location = NoneText \/ location = <<>>

\* C13 (diff-based update details): the details of the UPDATE entry of an
\* edit of a stored box or item have a clause for a field exactly when the
\* field's stored value after the edit differs from the one before, and are
\* "No changes" exactly when no field differs; an edit that changes only an
\* item's quantity gives "quantity: <old> -> <new>" and nothing else.
C13_DiffDetails ==
    [][/\ (last'.op = "edit_box" /\ last'.result = "success" /\ last'.id \in BoxIds) =>
            LET old == BoxById(last'.id)
                new == CHOOSE b \in boxes' : b.id = last'.id
                details == audit_logs'[Len(audit_logs')].details
                name_differs == old.name # new.name
                location_differs == /\ old.location # new.location
                                    /\ ~(NoLocation(old.location) /\ NoLocation(new.location))
            IN /\ HasPart(details, "name: '") <=> name_differs
               /\ HasPart(details, "location: '") <=> location_differs
               /\ (details = <<"No changes">>) <=> (~name_differs /\ ~location_differs)
       /\ (last'.op = "edit_item" /\ last'.result = "success" /\ last'.id \in ItemIds) =>
            LET old == ItemById(last'.id)
                new == CHOOSE i \in items' : i.id = last'.id
                details == audit_logs'[Len(audit_logs')].details
            IN /\ HasPart(details, "name: '") <=> (old.name # new.name)
               /\ HasPart(details, "quantity: ") <=> (old.quantity # new.quantity)
               /\ HasPart(details, "box: '") <=> (old.box_id # new.box_id)
               /\ (details = <<"No changes">>) <=> (old = new)
               /\ (old.name = new.name /\ old.box_id = new.box_id
                        /\ old.quantity # new.quantity) =>
                     details = <<"quantity: ">> \o IntToText(old.quantity) \o <<" -> ">>
                                  \o IntToText(new.quantity)]_vars

MatchingRows(logs, action, entity_type, search_text) ==
    {k \in 1..Len(logs) :
        /\ action # "" => logs[k].action = action
        /\ entity_type # "" => logs[k].entity_type = entity_type
        /\ Strip(search_text) # <<>> =>
              /\ logs[k].entity_name # NoneText
              /\ Like(logs[k].entity_name, Strip(search_text))}

\* the position in M that has j - 1 positions of M after it
NthNewest(M, j) == CHOOSE k \in M : Cardinality({m \in M : m > k}) = j - 1

\* rows is what a query with these filters and this limit has to return
NewestFirst(rows, logs, action, entity_type, search_text, limit) ==
    LET M == MatchingRows(logs, action, entity_type, search_text) IN
    /\ Len(rows) <= limit
    /\ Len(rows) = (IF Cardinality(M) > limit THEN limit ELSE Cardinality(M))
    /\ \A j \in 1..Len(rows) : rows[j] = logs[NthNewest(M, j)]

\* C15 (audit query ordering): the query returns the entries that pass all
\* set filters, newest first by insertion order and never more than limit of
\* them; when more than limit pass, it returns the limit newest.  Checked for
\* the rows load_logs shows and for the query with limits 1..MaxLimit.
C15_AuditQueryOrdering ==
    /\ last.op = "load_logs" =>
          NewestFirst(last.rows, audit_logs, last.action_filter, last.entity_filter,
                      last.search_text, LogLimit)
    /\ \A action \in ActionFilters, entity_type \in EntityFilters,
          search_text \in HistorySearchInputs, limit \in 1..MaxLimit :
          NewestFirst(QueryLogs(audit_logs, action, entity_type, search_text, limit),
                      audit_logs, action, entity_type, search_text, limit)

\* C15 witness: load_logs filtered by a name shows two entries, and the log
\* holds more entries than the limits the query is tried with
C15_Witness ==
    /\ last.op = "load_logs"
    /\ last.search_text # <<>>
    /\ Len(last.rows) = 2
    /\ last.rows[1] # last.rows[2]
    /\ Len(audit_logs) > MaxLimit

\* C16 (backup staleness after backup): with no backup folder or an empty one
\* check_backup_status finds the backup stale; right after a backup that
\* succeeded it does not, and get_latest_backup_date is the time written into
\* the name of the new file.
C16_StalenessAfterBackup ==
    /\ [](~backup_folder.exists \/ backup_folder.files = {}
            => BackupPrompt(backup_folder, now) # "")
    /\ [][(last'.op = "backup_database" /\ last'.result = "success") =>
            /\ BackupPrompt(backup_folder', now') = ""
            /\ last'.file \in backup_folder'.files
            /\ ParseStamp(last'.file).ok
            /\ GetLatestBackupDate(backup_folder') =
                  [ok |-> TRUE, value |-> ParseStamp(last'.file).value]]_vars

\* C16 witness: a backup succeeded in a folder whose only backup was stale:
\* one of day 0, with the clock past the first tick of day StaleDays
C16_Witness ==
    /\ last.op = "backup_database"
    /\ last.result = "success"
    /\ BackupFilename(0) \in backup_folder.files
    /\ Cardinality(backup_folder.files) = 2
    /\ now > StartTime

\* the text ends with the part
EndsWith(text, part) ==
    /\ Len(part) <= Len(text)
    /\ SubSeq(text, Len(text) - Len(part) + 1, Len(text)) = part

\* C17 (backup is non-destructive and audited only on success): a backup
\* leaves the boxes, the items and the audit rows there were as they are; when
\* the copy succeeded, exactly one BACKUP row naming the file is appended; when
\* it failed, no row is appended and an error is reported.
C17_BackupAudited ==
    [][last'.op = "backup_database" =>
          /\ boxes' = boxes
          /\ items' = items
          /\ SubSeq(audit_logs', 1, Len(audit_logs)) = audit_logs
          /\ last'.copied =>
                /\ Appended(1)
                /\ audit_logs'[Len(audit_logs')].action = "BACKUP"
                /\ EndsWith(audit_logs'[Len(audit_logs')].details, last'.file)
          /\ ~last'.copied =>
                /\ audit_logs' = audit_logs
                /\ last'.result = "error"]_vars

\* inventory.db as it is now
CurrentFile ==
    [tables |-> schema.tables, boxes_columns |-> schema.boxes_columns,
     items_check |-> schema.items_check,
     boxes |-> boxes, items |-> items, audit_logs |-> audit_logs]

\* C18 (idempotent migration): setup_database run again on a store it has set
\* up leaves the schema and the box, item and audit rows as they are: on each
\* stored file, on the store of every reachable state, and in the restart of
\* the program, which adds nothing but the SHUTDOWN row of closeEvent.
C18_IdempotentMigration ==
    /\ [](/\ \A file \in StoredFiles :
                SetupDatabase(SetupDatabase(file)) = SetupDatabase(file)
          /\ SetupDatabase(CurrentFile) = CurrentFile
          /\ "location" \in schema.boxes_columns)
    /\ [][(Len(audit_logs') = Len(audit_logs) + 1
            /\ audit_logs'[Len(audit_logs')].action = "SHUTDOWN") =>
            /\ schema' = schema
            /\ boxes' = boxes
            /\ items' = items
            /\ Appended(1)
            /\ running']_vars

\* C18 witness: the program was restarted on a file that was migrated from
\* one without the location column, holding a box of before the migration
\* and a box with a location
C18_Witness ==
    /\ audit_logs # <<>>
    /\ audit_logs[Len(audit_logs)].action = "SHUTDOWN"
    /\ \E b \in boxes : b.location = NoneText
    /\ \E b \in boxes : ~NoLocation(b.location)

\* a CSV field without content: missing from the line, empty or blanks only
Blank(field) == field = NoneText \/ Strip(field) = <<>>

\* the errors that apply to a data row, each named by the text that follows
\* the row label in its message
RowErrorKinds(row, bs) ==
    {": Item name is empty" : x \in {1} \cap {IF Blank(row.name) THEN 1 ELSE 0}}
    \cup {": Box name is empty" : x \in {1} \cap {IF Blank(row.box) THEN 1 ELSE 0}}
    \cup {": Box '" : x \in {1} \cap
            {IF ~Blank(row.box) /\ ~\E b \in bs : Lower(b.name) = Lower(Strip(row.box))
             THEN 1 ELSE 0}}
    \cup {": Invalid quantity '" : x \in {1} \cap
            {IF Blank(row.quantity) \/ ~ToInt(row.quantity).ok THEN 1 ELSE 0}}
    \cup {": Quantity must be at least 1" : x \in {1} \cap
            {IF ~Blank(row.quantity) /\ ToInt(row.quantity).ok /\ ToInt(row.quantity).val < 1
             THEN 1 ELSE 0}}

\* the positions in the error list of the messages labelled "Row <row_num>"
LabelledRow(validation_errors, row_num) ==
    LET n == <<"Row ">> \o IntToText(row_num) IN
    {k \in 1..Len(validation_errors) :
        /\ Len(validation_errors[k]) > Len(n)
        /\ SubSeq(validation_errors[k], 1, Len(n)) = n}

\* C19 (import validation is exhaustive): an import that reads data rows
\* shows a preview that holds every row, labelled from 2 on, with an error
\* flag set exactly when the row has an error, and an error list that holds
\* every applicable error of every row under the row's label, and no other.
C19_ExhaustiveValidation ==
    [][last'.op = "import" =>
         \A csv \in CsvInputs, result \in QueryOrders(boxes), confirmed \in BOOLEAN,
            bad_rows \in SUBSET (1..MaxRows), f \in Faults :
            (/\ csv.chosen
             /\ ~csv.empty
             /\ RequiredHeaders \subseteq csv.headers
             /\ csv.rows # <<>>
             /\ ImportFromCsv(csv, result, confirmed, bad_rows, f)) =>
                /\ last'.shown
                /\ Len(last'.import_data) = Len(csv.rows)
                /\ \A k \in 1..Len(csv.rows) :
                      LET kinds == RowErrorKinds(csv.rows[k], boxes)
                          labelled == LabelledRow(last'.validation_errors, k + 1)
                      IN /\ last'.import_data[k].row = k + 1
                         /\ last'.import_data[k].error <=> kinds # {}
                         /\ Cardinality(labelled) = Cardinality(kinds)
                         /\ {last'.validation_errors[e][3] : e \in labelled} = kinds
                /\ \A e \in 1..Len(last'.validation_errors) :
                      \E k \in 1..Len(csv.rows) :
                         e \in LabelledRow(last'.validation_errors, k + 1)]_vars

\* C20 (a missing header aborts the import): an import of a CSV file that
\* lacks one of the required headers shows no preview, inserts no item and
\* appends no audit row.
C20_MissingHeaderAborts ==
    [][last'.op = "import" =>
         \A csv \in CsvInputs, result \in QueryOrders(boxes), confirmed \in BOOLEAN,
            bad_rows \in SUBSET (1..MaxRows), f \in Faults :
            (/\ csv.chosen
             /\ ~(RequiredHeaders \subseteq csv.headers)
             /\ ImportFromCsv(csv, result, confirmed, bad_rows, f)) =>
                /\ ~last'.shown
                /\ last'.import_data = <<>>
                /\ last'.result \in {"format_error", "error"}
                /\ items' = items
                /\ boxes' = boxes
                /\ audit_logs' = audit_logs]_vars

\* C20 witness: the header check refused a file while the store has a box
\* and an item
C20_Witness ==
    /\ last.op = "import"
    /\ last.result = "format_error"
    /\ boxes # {}
    /\ items # {}

\* the step is a restart of the program: closeEvent appended its SHUTDOWN row
Restarted ==
    /\ Len(audit_logs') = Len(audit_logs) + 1
    /\ audit_logs'[Len(audit_logs')].action = "SHUTDOWN"

\* C21 (staleness threshold): check_backup_status, run at the start of the
\* program, asks for a backup exactly when there is no backup or the latest
\* one is older than StaleDays days; a latest backup that is not older than
\* that is not reported.
C21_StalenessThreshold ==
    [][Restarted =>
          LET latest_backup == GetLatestBackupDate(backup_folder') IN
          (last'.op = "check_backup_status") <=>
              \/ ~latest_backup.ok
              \/ now' - latest_backup.value > StaleDays * TicksPerDay]_vars

\* the text between two literal parts of an audit row's details
Between(details, before, after) ==
    LET i == CHOOSE k \in 1..Len(details) : details[k] = before
        j == CHOOSE k \in 1..Len(details) : details[k] = after
    IN SubSeq(details, i + 1, j - 1)

\* C22 (partial-batch commit): an import that went through keeps the items
\* there were, and the succeeded and failed counts of its IMPORT entry add up
\* to the number of rows the commit loop tried, succeeded being the number of
\* items the step added; a row whose INSERT raised does not end the batch.
C22_PartialBatchCommit ==
    [][(last'.op = "import" /\ last'.result = "success") =>
          LET details == audit_logs'[Len(audit_logs')].details
              succeeded == ToInt(Between(details, "Imported ", " items from CSV ("))
              failed == ToInt(Between(details, " items from CSV (", " failed)"))
          IN /\ Appended(1)
             /\ audit_logs'[Len(audit_logs')].action = "IMPORT"
             /\ succeeded.ok /\ failed.ok
             /\ items \subseteq items'
             /\ succeeded.val = Cardinality(items' \ items)
             /\ succeeded.val + failed.val = Cardinality(Attempted(last'.import_data))
             /\ Cardinality(Attempted(last'.import_data)) = Len(last'.import_data)]_vars

\* C22 witness: of an import of two rows the INSERT of one raised and the
\* other row is in the store
C22_Witness ==
    /\ last.op = "import"
    /\ last.result = "success"
    /\ Len(last.import_data) = 2
    /\ audit_logs[Len(audit_logs)].details = ImportDetails(1, 1)
    /\ \E i \in items : i.id = item_seq

\* the positions in the query result of the boxes a CSV row's box name names
NamedBy(result, box_name) ==
    {i \in 1..Len(result) : Lower(result[i].name) = Lower(box_name)}

\* C23 (duplicate box names in import), as stated: every preview entry whose
\* box name names stored boxes resolves to the earliest of them in the order
\* of the box query.
C23_FirstMatchWins ==
    [][(last'.op = "import" /\ last'.shown) =>
         \A csv \in CsvInputs, result \in QueryOrders(boxes), confirmed \in BOOLEAN,
            bad_rows \in SUBSET (1..MaxRows), f \in Faults :
            ImportFromCsv(csv, result, confirmed, bad_rows, f) =>
               \A k \in 1..Len(last'.import_data) :
                  LET entry == last'.import_data[k]
                      hits == NamedBy(result, entry.box_name)
                  IN hits # {} =>
                       entry.box_id = result[CHOOSE i \in hits : \A j \in hits : i <= j].id]_vars

\* C23, amended: every preview entry whose box name names stored boxes
\* resolves to the latest of them in the order of the box query, so all rows
\* naming it resolve to one and the same box.
C23_LastMatchWins ==
    [][(last'.op = "import" /\ last'.shown) =>
         \A csv \in CsvInputs, result \in QueryOrders(boxes), confirmed \in BOOLEAN,
            bad_rows \in SUBSET (1..MaxRows), f \in Faults :
            ImportFromCsv(csv, result, confirmed, bad_rows, f) =>
               /\ \A k \in 1..Len(last'.import_data) :
                     LET entry == last'.import_data[k]
                         hits == NamedBy(result, entry.box_name)
                     IN hits # {} =>
                          entry.box_id = result[CHOOSE i \in hits : \A j \in hits : j <= i].id
               /\ \A k, m \in 1..Len(last'.import_data) :
                     Lower(last'.import_data[k].box_name) = Lower(last'.import_data[m].box_name)
                        => last'.import_data[k].box_id = last'.import_data[m].box_id]_vars

\* C23 witness: an import showed its preview while two stored boxes share a
\* name, and two rows of the preview resolved to one of them
C23_Witness ==
    /\ last.op = "import"
    /\ last.shown
    /\ Len(last.import_data) = 2
    /\ \E b1, b2 \in boxes :
          /\ b1.id # b2.id
          /\ Lower(b1.name) = Lower(b2.name)
          /\ \A k \in 1..2 : last.import_data[k].box_id \in {b1.id, b2.id}

\* C24 (the command-line front end keeps the quantity floor): no item stored
\* through inv.py add_item and edit_item_quantity has a quantity below 1.
C24_CliQuantityFloor == \A i \in items : i.quantity > 0

\* the step is a handler whose dialog was cancelled, whose question was
\* answered No, or whose import preview was closed without Import
CancelStep ==
    \/ \E n \in BoxNameInputs \cup {<<>>}, l \in LocationInputs \cup {<<>>} :
          \/ AddBox(n, l, FALSE, "none")
          \/ \E row \in boxes_table : EditBox(row, n, l, FALSE, "none")
    \/ \E row \in boxes_table : DeleteBox(row, FALSE, "none")
    \/ \E n \in ItemNameInputs, b \in BoxComboChoices, q \in QtyInputs :
          \/ AddItem(n, b, q, FALSE, "none")
          \/ \E row \in items_table : EditItem(row, n, b, q, FALSE, "none")
    \/ \E row \in items_table : DeleteItem(row, FALSE, "none")
    \/ \E csv \in CsvInputs, result \in QueryOrders(boxes) :
          /\ ImportFromCsv(csv, result, FALSE, {}, "none")
          /\ last'.shown

\* C25 (cancellation is a no-op): a cancelled add or edit dialog, a No to a
\* delete question and an import preview closed without Import leave boxes,
\* items and audit_logs as they were.
C25_CancellationNoOp ==
    [][CancelStep =>
          /\ boxes' = boxes
          /\ items' = items
          /\ audit_logs' = audit_logs]_vars

\* C25 witness: the question of delete_item was answered No for an item that
\* is in the store
C25_Witness ==
    /\ last.op = "delete_item"
    /\ last.result = "cancelled"
    /\ last.id \in ItemIds
    /\ audit_logs # <<>>

\* C26 (view consistency of the Items tab): when edit_item or delete_item is
\* started from a row of the Items tab, the item of that row is in the store.
C26_ItemsViewConsistent ==
    [][(last'.op \in {"edit_item", "delete_item"} /\ last' # last) =>
          last'.id \in ItemIds]_vars


\* C27 (add_item refusal): add_item is refused with "No boxes available" only
\* when the store holds no box; whenever a box exists, add_item goes on to the
\* item dialog.
C27_RefusedOnlyWithoutBoxes ==
    [][(last'.op = "add_item" /\ last' # last /\ last'.result = "refused") =>
          boxes = {}]_vars

\* the six box and item handlers
BoxItemOps == {"add_box", "edit_box", "delete_box", "add_item", "edit_item", "delete_item"}

\* the store after the step holds the mutation the audit row describes
Committed(op, id, row, bs, is, new_bs, new_is) ==
    CASE op = "add_box" -> \E b \in new_bs \ bs : b.id = id /\ b.name = row.entity_name
      [] op = "add_item" -> \E i \in new_is \ is : i.id = id /\ i.name = row.entity_name
      [] op = "edit_box" -> \A b \in new_bs : b.id = id => b.name = row.entity_name
      [] op = "edit_item" -> \A i \in new_is : i.id = id => i.name = row.entity_name
      [] op = "delete_box" -> \A b \in new_bs : b.id # id
      [] op = "delete_item" -> \A i \in new_is : i.id # id

\* C28 (ordering of mutation and audit): a box or item handler adds an audit
\* row only in a step that committed its mutation, and the row describes that
\* mutation; a handler whose mutating statement raised leaves boxes and items
\* as they were (rollback) and adds no audit row.
C28_AuditAfterCommit ==
    [][(last'.op \in BoxItemOps /\ last' # last) =>
          /\ audit_logs' # audit_logs =>
                /\ last'.result = "success"
                /\ Len(audit_logs') = Len(audit_logs) + 1
                /\ SubSeq(audit_logs', 1, Len(audit_logs)) = audit_logs
                /\ audit_logs'[Len(audit_logs')].entity_id = last'.id
                /\ Committed(last'.op, last'.id, audit_logs'[Len(audit_logs')],
                             boxes, items, boxes', items')
          /\ (last'.result = "error" /\ boxes' = boxes /\ items' = items) =>
                audit_logs' = audit_logs]_vars

\* C28 witness: a delete_item whose DELETE raised: the item is still stored and
\* no audit row of this session names it, while an earlier handler of the
\* session was committed and audited.
C28_Witness ==
    /\ last.op = "delete_item"
    /\ last.result = "error"
    /\ last.id \in ItemIds
    /\ fault_count > 0
    /\ Len(audit_logs) > log_base
    /\ \A k \in (log_base + 1)..Len(audit_logs) :
          ~(audit_logs[k].action = "DELETE" /\ audit_logs[k].entity_type = "ITEM")

\* the entries of a preview list that carry no error flag
Unflagged(import_data) == {import_data[k] : k \in Attempted(import_data)}

\* C29 (preview rows are safe to commit): in the preview list of an import every
\* entry without error flag has a non-empty name, the id of a box that exists
\* when the lookup map is built, and a quantity of at least 1; an entry of
\* quantity 0 is flagged; and every item the commit loop inserts is an
\* unflagged entry of the list.
C29_PreviewRowsSafe ==
    [][(last'.op = "import" /\ last' # last /\ last'.shown) =>
          /\ last'.import_data # <<>>
          /\ \A e \in Unflagged(last'.import_data) :
                /\ e.name # <<>>
                /\ e.box_id # NoneId
                /\ e.box_id \in BoxIds
                /\ e.quantity >= 1
          /\ \A k \in 1..Len(last'.import_data) :
                last'.import_data[k].quantity < 1 => last'.import_data[k].error
          /\ \A i \in items' \ items :
                \E e \in Unflagged(last'.import_data) :
                    /\ i.name = e.name
                    /\ i.box_id = e.box_id
                    /\ i.quantity = e.quantity]_vars

\* C29 witness: a preview that lists an unflagged entry next to a flagged one
\* whose quantity did not parse and is carried as 0.
C29_Witness ==
    /\ last.op = "import"
    /\ last.shown
    /\ Unflagged(last.import_data) # {}
    /\ \E k \in 1..Len(last.import_data) :
          /\ last.import_data[k].error
          /\ last.import_data[k].quantity = 0
          /\ last.import_data[k].box_id = NoneId

\* the handlers that write a file: the three exports and the backup
FileOps == {"export_to_csv", "export_logs_to_csv", "export_import_template",
            "backup_database"}

\* C30 (frame conditions): add_box and edit_box leave the items as they are;
\* add_item, edit_item, delete_item and the CSV import leave the boxes as they
\* are; the three exports and the backup leave boxes and items as they are
\* and, where they report success, add exactly one audit row, EXPORT for an
\* export and BACKUP for the backup.
C30_FrameConditions ==
    [][(last' # last /\ last'.op # "none") =>
          /\ last'.op \in {"add_box", "edit_box"} => items' = items
          /\ last'.op \in {"add_item", "edit_item", "delete_item", "import"} =>
                boxes' = boxes
          /\ last'.op \in FileOps =>
                /\ boxes' = boxes
                /\ items' = items
                /\ last'.result = "success" =>
                      /\ Len(audit_logs') = Len(audit_logs) + 1
                      /\ SubSeq(audit_logs', 1, Len(audit_logs)) = audit_logs
                      /\ audit_logs'[Len(audit_logs')].action =
                            (IF last'.op = "backup_database" THEN "BACKUP" ELSE "EXPORT")]_vars

\* C30 witness: an inventory export of a store with a box and an item has
\* succeeded, wrote the item's row and its EXPORT row ends the audit table.
C30_Witness ==
    /\ last.op = "export_to_csv"
    /\ last.result = "success"
    /\ boxes # {}
    /\ Len(last.rows) = Cardinality(items)
    /\ Len(last.rows) >= 1
    /\ Len(audit_logs) > log_base
    /\ audit_logs[Len(audit_logs)].action = "EXPORT"
    /\ audit_logs[Len(audit_logs)].entity_type = "INVENTORY"
====
